---- MODULE Spec2Model ----
(***************************************************************************)
(* A model of the Hoot interpreter (healeycodes/hoot-language): the driver *)
(* Hoot.main / run_file / run, the Resolver, the tree-walking Interpreter  *)
(* with its environments and callables, and the asyncio layer that drains  *)
(* the background tasks created by delay / read / write / request.         *)
(*                                                                         *)
(* A program is a list of top-level statements (abstract syntax trees):    *)
(* a fixed prelude of declarations followed by up to MaxStmts statements   *)
(* drawn from a pool.  The scanner and parser stages are represented by    *)
(* their effect on had_error and by the statement list they hand on.       *)
(***************************************************************************)
EXTENDS Integers, Sequences, FiniteSets, TLC

\* number of pool statements that follow the prelude in a program
MaxStmts == 2

\* iterations after which a while loop of the model is cut off
MaxIter == 3

\* length of the longest text given to the scanner
MaxSrcLen == 3

\* the most tokens before EOF in a list the parser is run on
MaxTokens == 4

(***************************************************************************)
(* Runtime values: a tag and a payload.  A number is a Python float; the   *)
(* model has the floats with an integer value.  A string literal is a      *)
(* Python str.                                                             *)
(***************************************************************************)
Val(t, v) == [t |-> t, v |-> v]
Nil == Val("nil", 0)
Num(n) == Val("num", n)
Bool(b) == Val("bool", IF b THEN 1 ELSE 0)
Str(text) == Val("str", text)

\* the native callables Interpreter.__init__ defines in the globals frame
NativeNames == {"input", "read", "write", "clock", "delay", "request",
                "string", "list", "map"}

EmptyMap == [x \in {} |-> Nil]

\* F applied to the value of v: v is evaluated once, before F
Bind(v, F(_)) == CHOOSE y \in {F(x) : x \in {v}} : TRUE

(***************************************************************************)
(* Abstract syntax (expr.py, stmt.py).  Variable, Assign and This nodes    *)
(* carry an id: the identity the depth table is keyed on.                  *)
(***************************************************************************)
Literal(value) == [type |-> "Literal", value |-> value]
Letiable(id, name) == [type |-> "Letiable", id |-> id, name |-> name]
Assign(id, name, value) ==
    [type |-> "Assign", id |-> id, name |-> name, value |-> value]
Unary(operator, right) ==
    [type |-> "Unary", operator |-> operator, right |-> right]
Binary(left, operator, right) ==
    [type |-> "Binary", left |-> left, operator |-> operator, right |-> right]
Call(callee, arguments) ==
    [type |-> "Call", callee |-> callee, arguments |-> arguments]
Get(obj, name) == [type |-> "Get", obj |-> obj, name |-> name]
Set(obj, name, value) ==
    [type |-> "Set", obj |-> obj, name |-> name, value |-> value]
This(id) == [type |-> "This", id |-> id]
Grouping(expression) == [type |-> "Grouping", expression |-> expression]
Logical(left, operator, right) ==
    [type |-> "Logical", left |-> left, operator |-> operator,
     right |-> right]
Super(id, method) == [type |-> "Super", id |-> id, method |-> method]

Block(statements) == [type |-> "Block", statements |-> statements]
Class(name, superclass, methods) ==
    [type |-> "Class", name |-> name, superclass |-> superclass,
     methods |-> methods]
Expression(expression) == [type |-> "Expression", expression |-> expression]
Function(name, params, body) ==
    [type |-> "Function", name |-> name, params |-> params, body |-> body]
If(condition, then_branch, else_branch) ==
    [type |-> "If", condition |-> condition, then_branch |-> then_branch,
     else_branch |-> else_branch]
PrintStmt(expression) == [type |-> "Print", expression |-> expression]
Return(value) == [type |-> "Return", value |-> value]
Let(name, initializer) ==
    [type |-> "Let", name |-> name, initializer |-> initializer]
While(condition, body) ==
    [type |-> "While", condition |-> condition, body |-> body]
Break == [type |-> "Break"]

\* an absent optional child (Python None)
None == [type |-> "None"]

(***************************************************************************)
(* The programs.  Prelude(i) is the i-th declaration every program starts  *)
(* with; PoolStmt(k, i) is pool statement k placed at top-level position i *)
(* (the position makes the node ids of two copies distinct, as two parses  *)
(* of the same text give distinct nodes).                                  *)
(*                                                                         *)
(*   fun cb() { print 2; }                                                 *)
(*   fun cb1(d) { print 3; }                                               *)
(*   fun bad() { -nil; }                                                   *)
(*   fun bad1(d) { -nil; }                                                 *)
(*   fun spawn() { delay(cb, 0); }                                         *)
(*   class A {}                                                            *)
(***************************************************************************)
PreludeNames == <<"cb", "cb1", "bad", "bad1", "spawn", "A">>

PreludeLen == Len(PreludeNames)

Prelude(i) ==
    CASE PreludeNames[i] = "cb" -> Function("cb", <<>>, <<PrintStmt(Literal(Num(2)))>>)
      [] PreludeNames[i] = "cb1" -> Function("cb1", <<"d">>, <<PrintStmt(Literal(Num(3)))>>)
      [] PreludeNames[i] = "bad" -> Function("bad", <<>>,
                           <<Expression(Unary("-", Literal(Nil)))>>)
      [] PreludeNames[i] = "bad1" -> Function("bad1", <<"d">>,
                           <<Expression(Unary("-", Literal(Nil)))>>)
      [] PreludeNames[i] = "spawn" -> Function("spawn", <<>>,
                    <<Expression(Call(Letiable(<<i, 1>>, "delay"),
                        <<Letiable(<<i, 2>>, "cb"), Literal(Num(0))>>))>>)
      [] PreludeNames[i] = "A" -> Class("A", None, <<>>)

(***************************************************************************)
(* The pool of top-level statements, by name.                              *)
(*                                                                         *)
(*   print          print 1;                                               *)
(*   delay_cb       delay(cb, 0);                                          *)
(*   delay_bad      delay(bad, 0);                                         *)
(*   delay_spawn    delay(spawn, 0);                                       *)
(*   read_cb1       read(1, cb1);                                          *)
(*   read_bad1      read(1, bad1);                                         *)
(*   write_cb       write(1, 1, 1, cb);                                    *)
(*   request_cb1    request(1, nil, nil, 1, cb1);                          *)
(*   neg_nil        -nil;                                                  *)
(*   undef_prop     A().x;                                                 *)
(*   top_return     return 1;                                              *)
(*   own_init       { let a = a; }                                         *)
(*   break_in_fun   while (true) { fun f() { break; } f(); }               *)
(*   break_escapes  { let g = nil;                                         *)
(*                    while (true) { fun f() { break; } g = f; break; }    *)
(*                    g(); }                                               *)
(*   top_break      break;                                                 *)
(*   subclass       class B < A {}                                         *)
(*   legit          { fun h() { return 1; }                                *)
(*                    while (true) { print h(); break; } }                 *)
(***************************************************************************)
PoolStmt(k, i) ==
    CASE k = "print" -> PrintStmt(Literal(Num(1)))
      [] k = "delay_cb" -> Expression(Call(Letiable(<<i, 1>>, "delay"),
                     <<Letiable(<<i, 2>>, "cb"), Literal(Num(0))>>))
      [] k = "delay_bad" -> Expression(Call(Letiable(<<i, 1>>, "delay"),
                     <<Letiable(<<i, 2>>, "bad"), Literal(Num(0))>>))
      [] k = "delay_spawn" -> Expression(Call(Letiable(<<i, 1>>, "delay"),
                     <<Letiable(<<i, 2>>, "spawn"), Literal(Num(0))>>))
      [] k = "read_cb1" -> Expression(Call(Letiable(<<i, 1>>, "read"),
                     <<Literal(Num(1)), Letiable(<<i, 2>>, "cb1")>>))
      [] k = "read_bad1" -> Expression(Call(Letiable(<<i, 1>>, "read"),
                     <<Literal(Num(1)), Letiable(<<i, 2>>, "bad1")>>))
      [] k = "write_cb" -> Expression(Call(Letiable(<<i, 1>>, "write"),
                     <<Literal(Num(1)), Literal(Num(1)), Literal(Num(1)),
                       Letiable(<<i, 2>>, "cb")>>))
      [] k = "request_cb1" -> Expression(Call(Letiable(<<i, 1>>, "request"),
                     <<Literal(Num(1)), Literal(Nil), Literal(Nil),
                       Literal(Num(1)), Letiable(<<i, 2>>, "cb1")>>))
      [] k = "neg_nil" -> Expression(Unary("-", Literal(Nil)))
      [] k = "undef_prop" -> Expression(Get(Call(Letiable(<<i, 1>>, "A"), <<>>), "x"))
      [] k = "top_return" -> Return(Literal(Num(1)))
      [] k = "own_init" -> Block(<<Let("a", Letiable(<<i, 1>>, "a"))>>)
      [] k = "break_in_fun" -> While(Literal(Bool(TRUE)), Block(<<
                       Function("f", <<>>, <<Break>>),
                       Expression(Call(Letiable(<<i, 1>>, "f"), <<>>))>>))
      [] k = "break_escapes" -> Block(<<
                       Let("g", Literal(Nil)),
                       While(Literal(Bool(TRUE)), Block(<<
                           Function("f", <<>>, <<Break>>),
                           Expression(Assign(<<i, 1>>, "g",
                                             Letiable(<<i, 2>>, "f"))),
                           Break>>)),
                       Expression(Call(Letiable(<<i, 3>>, "g"), <<>>))>>)
      [] k = "top_break" -> Break
      [] k = "subclass" -> Class("B", Letiable(<<i, 1>>, "A"), <<>>)
      [] k = "legit" -> Block(<<
                       Function("h", <<>>, <<Return(Literal(Num(1)))>>),
                       While(Literal(Bool(TRUE)), Block(<<
                           PrintStmt(Call(Letiable(<<i, 1>>, "h"), <<>>)),
                           Break>>))>>)

PoolNames == {"print", "delay_cb", "delay_bad", "delay_spawn", "read_cb1", "read_bad1", "write_cb", "request_cb1",
              "neg_nil", "undef_prop", "top_return", "own_init", "break_in_fun", "break_escapes", "top_break", "legit",
              "subclass"}

(***************************************************************************)
(* Parser.for_statement: the for loop is rewritten into a while loop.      *)
(* initializer, condition and increment are None when the clause is empty. *)
(***************************************************************************)

\* the increment runs before the body
for_statement_increment_first(initializer, condition, increment, body) ==
    LET with_increment == IF increment.type # "None"
                          THEN Block(<<Expression(increment), body>>)
                          ELSE body
        loop == While(IF condition.type = "None" THEN Literal(Bool(TRUE))
                      ELSE condition,
                      with_increment)
    IN IF initializer.type # "None" THEN Block(<<initializer, loop>>)
       ELSE loop

for_statement(initializer, condition, increment, body) ==
    LET with_increment == IF increment.type # "None"
                          THEN Block(<<body, Expression(increment)>>)
                          ELSE body
        loop == While(IF condition.type = "None" THEN Literal(Bool(TRUE))
                      ELSE condition,
                      with_increment)
    IN IF initializer.type # "None" THEN Block(<<initializer, loop>>)
       ELSE loop

(***************************************************************************)
(* Programs about the language itself.  A body <<name>> stands for the     *)
(* program of that name; a body <<"eq", l, r>> for the program             *)
(*   print l == r; print l != r;                                           *)
(* with two literals.                                                      *)
(*                                                                         *)
(*   closure         fun make(n) { fun add(x) { return n + x; }            *)
(*                     return add; }                                       *)
(*                   print make(3)(4);                                     *)
(*   closure_shadow  let n = 1; fun f() { return n; }                      *)
(*                   fun g() { let n = 2; return f(); } print g();         *)
(*   closure_write   let n = 1; fun set() { n = 5; }                       *)
(*                   fun g() { let n = 2; set(); print n; } g(); print n;  *)
(*   super_chain     class A { m() { return 1; } }                         *)
(*                   class B < A { m() { return 2; }                       *)
(*                                 t() { return super.m(); } }             *)
(*                   class C < B { m() { return 3; } } print C().t();      *)
(*   super_this      class A { m() { return this; } }                      *)
(*                   class B < A { t() { return super.m(); } }             *)
(*                   class C < B {} let c = C(); print c.t() == c;         *)
(*   super_up        class A { m() { return 1; } } class B < A {}          *)
(*                   class C < B { t() { return super.m(); } }             *)
(*                   print C().t();                                        *)
(*   init_return     class A { init() { return; } }                        *)
(*                   let a = A(); print a; print a.init() == a;            *)
(*   init_plain      class A { init() { this.x = 1; } }                    *)
(*                   let a = A(); print a.init() == a; print a.x;          *)
(*   init_inherited  class A { init() { return; } } class B < A {}         *)
(*                   print B();                                            *)
(*   for_loop        for (let i = 0; i < 2; i = i + 1) print i;            *)
(*   for_after       for (let i = 0; i < 2; i = i + 1) print i; print i;   *)
(*   nested_break    let i = 0;                                            *)
(*                   while (i < 2) { let a = 7;                            *)
(*                     while (true) { let b = 1; { break; } }              *)
(*                     print a; i = i + 1; }                               *)
(*                   print i;                                              *)
(*   eq_identity     class A {} let a = A(); let b = A(); fun f() {}       *)
(*                   print a == a; print a == b; print f == f;             *)
(*                   print A == A; print clock == clock; print a == A;     *)
(*   print_table     fun f() {} class A {} print nil; print true;          *)
(*                   print false; print "hi"; print f; print A;            *)
(*                   print clock;                                          *)
(*   print_sum       print 1 + 2;                                          *)
(*   dup_global      let a = 1; let a = 2; print a;                        *)
(*   dup_global_fun  fun f() {} fun f() {} class A {} class A {}           *)
(*   global_ref      let a = 1; { print a; }                               *)
(*   prop_field      class A { m() { return 1; } }                         *)
(*                   let a = A(); a.m = 5; print a.m;                      *)
(*   prop_override   class A { m() { return 1; } n() { return 4; } }       *)
(*                   class B < A { m() { return 2; } }                     *)
(*                   let b = B(); print b.m(); print b.n();                *)
(*   prop_this       class A { me() { return this; } } class B < A {}      *)
(*                   let b = B(); let f = b.me; print f() == b;            *)
(*   assign_undeclared     x = 1; print 2;                                 *)
(*   assign_undeclared_fn  fun f() { x = 1; } f(); print 2;                *)
(*   assign_value    let a = 1; print a = 2; print a;                      *)
(*                   { let b = 0; print b = 3; }                           *)
(*   own_init_global let a = a; print a;                                   *)
(*   own_init_local  { let a = a; print a; }                               *)
(*   assign_late     fun f() { x = 1; return x; } let x = 0;               *)
(*                   print f(); print x;                                   *)
(***************************************************************************)
Ref(k, name) == Letiable(<<0, k>>, name)

LangNames ==
    {"closure", "closure_shadow", "closure_write", "super_chain",
     "super_this", "super_up", "init_return", "init_plain",
     "init_inherited", "for_loop", "for_after", "nested_break",
     "eq_identity", "print_table", "print_sum", "dup_global",
     "dup_global_fun", "global_ref", "prop_field", "prop_override",
     "prop_this", "assign_undeclared", "assign_undeclared_fn",
     "assign_value", "assign_late", "own_init_global", "own_init_local"}

\* the literals of the programs <<"eq", l, r>>
EqLiteralNames == {"nil", "true", "false", "0", "1", "a", "b"}

EqLiteral(name) ==
    CASE name = "nil" -> Literal(Nil)
      [] name = "true" -> Literal(Bool(TRUE))
      [] name = "false" -> Literal(Bool(FALSE))
      [] name = "0" -> Literal(Num(0))
      [] name = "1" -> Literal(Num(1))
      [] name = "a" -> Literal(Str("a"))
      [] name = "b" -> Literal(Str("b"))

ReturnNumber(name, n) == Function(name, <<>>, <<Return(Literal(Num(n)))>>)

SuperCall(k, name) ==
    Function(name, <<>>, <<Return(Call(Super(<<0, k>>, "m"), <<>>))>>)

ForLoop ==
    for_statement(Let("i", Literal(Num(0))),
                  Binary(Ref(1, "i"), "<", Literal(Num(2))),
                  Assign(<<0, 2>>, "i",
                         Binary(Ref(3, "i"), "+", Literal(Num(1)))),
                  PrintStmt(Ref(4, "i")))

LangProgram(body) ==
    CASE body[1] = "eq" ->
           <<PrintStmt(Binary(EqLiteral(body[2]), "==", EqLiteral(body[3]))),
             PrintStmt(Binary(EqLiteral(body[2]), "!=", EqLiteral(body[3])))>>
      [] body[1] = "closure" ->
           <<Function("make", <<"n">>,
               <<Function("add", <<"x">>,
                   <<Return(Binary(Ref(1, "n"), "+", Ref(2, "x")))>>),
                 Return(Ref(3, "add"))>>),
             PrintStmt(Call(Call(Ref(4, "make"), <<Literal(Num(3))>>),
                            <<Literal(Num(4))>>))>>
      [] body[1] = "closure_shadow" ->
           <<Let("n", Literal(Num(1))),
             Function("f", <<>>, <<Return(Ref(1, "n"))>>),
             Function("g", <<>>,
               <<Let("n", Literal(Num(2))),
                 Return(Call(Ref(2, "f"), <<>>))>>),
             PrintStmt(Call(Ref(3, "g"), <<>>))>>
      [] body[1] = "closure_write" ->
           <<Let("n", Literal(Num(1))),
             Function("set", <<>>,
               <<Expression(Assign(<<0, 1>>, "n", Literal(Num(5))))>>),
             Function("g", <<>>,
               <<Let("n", Literal(Num(2))),
                 Expression(Call(Ref(2, "set"), <<>>)),
                 PrintStmt(Ref(3, "n"))>>),
             Expression(Call(Ref(4, "g"), <<>>)),
             PrintStmt(Ref(5, "n"))>>
      [] body[1] = "super_chain" ->
           <<Class("A", None, <<ReturnNumber("m", 1)>>),
             Class("B", Ref(1, "A"),
                   <<ReturnNumber("m", 2), SuperCall(2, "t")>>),
             Class("C", Ref(3, "B"), <<ReturnNumber("m", 3)>>),
             PrintStmt(Call(Get(Call(Ref(4, "C"), <<>>), "t"), <<>>))>>
      [] body[1] = "super_this" ->
           <<Class("A", None,
                   <<Function("m", <<>>, <<Return(This(<<0, 1>>))>>)>>),
             Class("B", Ref(2, "A"), <<SuperCall(3, "t")>>),
             Class("C", Ref(4, "B"), <<>>),
             Let("c", Call(Ref(5, "C"), <<>>)),
             PrintStmt(Binary(Call(Get(Ref(6, "c"), "t"), <<>>), "==",
                              Ref(7, "c")))>>
      [] body[1] = "super_up" ->
           <<Class("A", None, <<ReturnNumber("m", 1)>>),
             Class("B", Ref(1, "A"), <<>>),
             Class("C", Ref(2, "B"), <<SuperCall(3, "t")>>),
             PrintStmt(Call(Get(Call(Ref(4, "C"), <<>>), "t"), <<>>))>>
      [] body[1] = "init_return" ->
           <<Class("A", None, <<Function("init", <<>>, <<Return(None)>>)>>),
             Let("a", Call(Ref(1, "A"), <<>>)),
             PrintStmt(Ref(2, "a")),
             PrintStmt(Binary(Call(Get(Ref(3, "a"), "init"), <<>>), "==",
                              Ref(4, "a")))>>
      [] body[1] = "init_plain" ->
           <<Class("A", None,
               <<Function("init", <<>>,
                   <<Expression(Set(This(<<0, 1>>), "x",
                                    Literal(Num(1))))>>)>>),
             Let("a", Call(Ref(2, "A"), <<>>)),
             PrintStmt(Binary(Call(Get(Ref(3, "a"), "init"), <<>>), "==",
                              Ref(4, "a"))),
             PrintStmt(Get(Ref(5, "a"), "x"))>>
      [] body[1] = "init_inherited" ->
           <<Class("A", None, <<Function("init", <<>>, <<Return(None)>>)>>),
             Class("B", Ref(1, "A"), <<>>),
             PrintStmt(Call(Ref(2, "B"), <<>>))>>
      [] body[1] = "for_loop" -> <<ForLoop>>
      [] body[1] = "for_after" -> <<ForLoop, PrintStmt(Ref(5, "i"))>>
      [] body[1] = "nested_break" ->
           <<Let("i", Literal(Num(0))),
             While(Binary(Ref(1, "i"), "<", Literal(Num(2))),
               Block(<<Let("a", Literal(Num(7))),
                       While(Literal(Bool(TRUE)),
                         Block(<<Let("b", Literal(Num(1))),
                                 Block(<<Break>>)>>)),
                       PrintStmt(Ref(2, "a")),
                       Expression(Assign(<<0, 3>>, "i",
                           Binary(Ref(4, "i"), "+", Literal(Num(1)))))>>)),
             PrintStmt(Ref(5, "i"))>>
      [] body[1] = "eq_identity" ->
           <<Class("A", None, <<>>),
             Let("a", Call(Ref(1, "A"), <<>>)),
             Let("b", Call(Ref(2, "A"), <<>>)),
             Function("f", <<>>, <<>>),
             PrintStmt(Binary(Ref(3, "a"), "==", Ref(4, "a"))),
             PrintStmt(Binary(Ref(5, "a"), "==", Ref(6, "b"))),
             PrintStmt(Binary(Ref(7, "f"), "==", Ref(8, "f"))),
             PrintStmt(Binary(Ref(9, "A"), "==", Ref(10, "A"))),
             PrintStmt(Binary(Ref(11, "clock"), "==", Ref(12, "clock"))),
             PrintStmt(Binary(Ref(13, "a"), "==", Ref(14, "A")))>>
      [] body[1] = "print_table" ->
           <<Function("f", <<>>, <<>>),
             Class("A", None, <<>>),
             PrintStmt(Literal(Nil)),
             PrintStmt(Literal(Bool(TRUE))),
             PrintStmt(Literal(Bool(FALSE))),
             PrintStmt(Literal(Str("hi"))),
             PrintStmt(Ref(1, "f")),
             PrintStmt(Ref(2, "A")),
             PrintStmt(Ref(3, "clock"))>>
      [] body[1] = "print_sum" ->
           <<PrintStmt(Binary(Literal(Num(1)), "+", Literal(Num(2))))>>
      [] body[1] = "dup_global" ->
           <<Let("a", Literal(Num(1))),
             Let("a", Literal(Num(2))),
             PrintStmt(Ref(1, "a"))>>
      [] body[1] = "dup_global_fun" ->
           <<Function("f", <<>>, <<>>), Function("f", <<>>, <<>>),
             Class("A", None, <<>>), Class("A", None, <<>>)>>
      [] body[1] = "global_ref" ->
           <<Let("a", Literal(Num(1))),
             Block(<<PrintStmt(Ref(1, "a"))>>)>>
      [] body[1] = "prop_field" ->
           <<Class("A", None, <<ReturnNumber("m", 1)>>),
             Let("a", Call(Ref(1, "A"), <<>>)),
             Expression(Set(Ref(2, "a"), "m", Literal(Num(5)))),
             PrintStmt(Get(Ref(3, "a"), "m"))>>
      [] body[1] = "prop_override" ->
           <<Class("A", None, <<ReturnNumber("m", 1), ReturnNumber("n", 4)>>),
             Class("B", Ref(1, "A"), <<ReturnNumber("m", 2)>>),
             Let("b", Call(Ref(2, "B"), <<>>)),
             PrintStmt(Call(Get(Ref(3, "b"), "m"), <<>>)),
             PrintStmt(Call(Get(Ref(4, "b"), "n"), <<>>))>>
      [] body[1] = "prop_this" ->
           <<Class("A", None,
                   <<Function("me", <<>>, <<Return(This(<<0, 1>>))>>)>>),
             Class("B", Ref(2, "A"), <<>>),
             Let("b", Call(Ref(3, "B"), <<>>)),
             Let("f", Get(Ref(4, "b"), "me")),
             PrintStmt(Binary(Call(Ref(5, "f"), <<>>), "==", Ref(6, "b")))>>
      [] body[1] = "assign_undeclared" ->
           <<Expression(Assign(<<0, 1>>, "x", Literal(Num(1)))),
             PrintStmt(Literal(Num(2)))>>
      [] body[1] = "assign_undeclared_fn" ->
           <<Function("f", <<>>,
               <<Expression(Assign(<<0, 1>>, "x", Literal(Num(1))))>>),
             Expression(Call(Ref(2, "f"), <<>>)),
             PrintStmt(Literal(Num(2)))>>
      [] body[1] = "assign_value" ->
           <<Let("a", Literal(Num(1))),
             PrintStmt(Assign(<<0, 1>>, "a", Literal(Num(2)))),
             PrintStmt(Ref(2, "a")),
             Block(<<Let("b", Literal(Num(0))),
                     PrintStmt(Assign(<<0, 3>>, "b", Literal(Num(3))))>>)>>
      [] body[1] = "own_init_global" ->
           <<Let("a", Ref(1, "a")), PrintStmt(Ref(2, "a"))>>
      [] body[1] = "own_init_local" ->
           <<Block(<<Let("a", Ref(1, "a")), PrintStmt(Ref(2, "a"))>>)>>
      [] body[1] = "assign_late" ->
           <<Function("f", <<>>,
               <<Expression(Assign(<<0, 1>>, "x", Literal(Num(1)))),
                 Return(Ref(2, "x"))>>),
             Let("x", Literal(Num(0))),
             PrintStmt(Call(Ref(3, "f"), <<>>)),
             PrintStmt(Ref(4, "x"))>>

LangBodies ==
    {<<name>> : name \in LangNames}
    \cup {<<"eq", l, r>> : l \in EqLiteralNames, r \in EqLiteralNames}

\* the statement list the parser hands on: for a program about the language,
\* or for a choice of pool statements after the prelude
ProgramOf(body) ==
    IF body \in LangBodies THEN LangProgram(body)
    ELSE [i \in 1..(PreludeLen + Len(body)) |->
             IF i <= PreludeLen THEN Prelude(i)
             ELSE PoolStmt(body[i - PreludeLen], i)]

(***************************************************************************)
(* Resolver (resolver.py).  r is the Resolver object: its scope stack, its *)
(* three context fields, the had_error flag of the Hoot object it reports  *)
(* to (with the messages reported), and the interpreter's depth table.     *)
(***************************************************************************)
EmptyScope == [x \in {} |-> FALSE]

\* Resolver.__init__: the scope stack starts with one scope on it
ResolverInit(he, depths) ==
    [scopes |-> <<EmptyScope>>,
     current_function |-> "NONE",
     current_class |-> "NONE",
     current_statement |-> "NONE",
     had_error |-> he,
     errors |-> {},
     locals |-> depths]

\* Hoot.error / Hoot.report as called by the resolver
resolver_error(r, message) ==
    [r EXCEPT !.had_error = TRUE, !.errors = @ \cup {message}]

begin_scope(r) == [r EXCEPT !.scopes = Append(@, EmptyScope)]

end_scope(r) == [r EXCEPT !.scopes = SubSeq(@, 1, Len(@) - 1)]

declare(r, name) ==
    IF Len(r.scopes) = 0 THEN r
    ELSE LET top == Len(r.scopes)
             r1 == IF name \in DOMAIN r.scopes[top]
                   THEN resolver_error(r,
                          "Already variable with this name in this scope.")
                   ELSE r
         IN [r1 EXCEPT !.scopes[top] = (name :> FALSE) @@ @]

define(r, name) ==
    IF Len(r.scopes) = 0 THEN r
    ELSE [r EXCEPT !.scopes[Len(r.scopes)] = (name :> TRUE) @@ @]

\* the innermost scope that has the name gives the depth; no entry otherwise
resolve_local(r, id, name) ==
    LET found == {i \in 1..Len(r.scopes) : name \in DOMAIN r.scopes[i]}
    IN IF found = {} THEN r
       ELSE LET i == CHOOSE j \in found : \A m \in found : m <= j
            IN [r EXCEPT !.locals = (id :> (Len(r.scopes) - i)) @@ @]

RECURSIVE resolve_stmt(_, _)
RECURSIVE resolve_expr(_, _)
RECURSIVE resolve_stmts(_, _, _)
RECURSIVE resolve_methods(_, _, _)

resolve_function(r0, function, function_type) == Bind(r0, LAMBDA r :
    LET enclosing_function == r.current_function
        r1 == begin_scope([r EXCEPT !.current_function = function_type])
        DeclareParams[i \in 0..Len(function.params)] ==
            IF i = 0 THEN r1
            ELSE define(declare(DeclareParams[i - 1], function.params[i]),
                        function.params[i])
        r2 == resolve_stmts(DeclareParams[Len(function.params)],
                            function.body, 1)
    IN [end_scope(r2) EXCEPT !.current_function = enclosing_function])

resolver_visit_block_stmt(r, stmt) ==
    end_scope(resolve_stmts(begin_scope(r), stmt.statements, 1))

resolver_visit_class_stmt(r, stmt) ==
    LET enclosing_class == r.current_class
        has_super == stmt.superclass.type # "None"
        r1 == define(declare([r EXCEPT !.current_class = "CLASS"], stmt.name),
                     stmt.name)
        r2 == IF has_super /\ stmt.name = stmt.superclass.name
              THEN resolver_error(r1, "A class can't inherit from itself.")
              ELSE r1
        r3 == IF has_super
              THEN resolve_expr([r2 EXCEPT !.current_class = "SUBCLASS"],
                                stmt.superclass)
              ELSE r2
        r4 == IF has_super THEN define(begin_scope(r3), "super") ELSE r3
        r5 == define(begin_scope(r4), "this")
        r6 == resolve_methods(r5, stmt.methods, 1)
        r7 == end_scope(r6)
        r8 == IF has_super THEN end_scope(r7) ELSE r7
    IN [r8 EXCEPT !.current_class = enclosing_class]

resolver_visit_function_stmt(r, stmt) ==
    resolve_function(define(declare(r, stmt.name), stmt.name),
                     stmt, "FUNCTION")

resolver_visit_if_stmt(r, stmt) ==
    LET r1 == resolve_stmt(resolve_stmt(r, stmt.condition), stmt.then_branch)
    IN IF stmt.else_branch.type # "None"
       THEN resolve_stmt(r1, stmt.else_branch)
       ELSE r1

\* the only check on a return statement is the one on an initializer's value
resolver_visit_return_stmt(r, stmt) ==
    IF stmt.value.type # "None"
    THEN resolve_expr(
           IF r.current_function = "INITIALIZR"
           THEN resolver_error(r, "Can't return a value from an initializer.")
           ELSE r,
           stmt.value)
    ELSE r

\* current_statement is saved and restored by a while statement only
resolver_visit_while_stmt(r, stmt) ==
    LET enclosing == r.current_statement
        r1 == resolve_expr(r, stmt.condition)
        r2 == resolve_expr([r1 EXCEPT !.current_statement = "WHILE"],
                           stmt.body)
    IN [r2 EXCEPT !.current_statement = enclosing]

resolver_visit_break_stmt(r, stmt) ==
    IF r.current_statement # "WHILE"
    THEN resolver_error(r, "Can't use 'break' outside of a loop.")
    ELSE r

resolver_visit_var_stmt(r, stmt) ==
    LET r1 == declare(r, stmt.name)
        r2 == IF stmt.initializer.type # "None"
              THEN resolve_expr(r1, stmt.initializer)
              ELSE r1
    IN define(r2, stmt.name)

\* the declared-but-not-defined check is made only when the scope stack is
\* empty
resolver_visit_variable_expr(r, expr) ==
    LET r1 == IF Len(r.scopes) = 0
              THEN IF /\ expr.name \in DOMAIN r.scopes[Len(r.scopes)]
                      /\ r.scopes[Len(r.scopes)][expr.name] = FALSE
                   THEN resolver_error(r,
                       "Can't read local variable in its own initializer.")
                   ELSE r
              ELSE r
    IN resolve_local(r1, expr.id, expr.name)

resolver_visit_assign_expr(r, expr) ==
    resolve_local(resolve_expr(r, expr.value), expr.id, expr.name)

resolver_visit_call_expr(r, expr) ==
    resolve_stmts(resolve_expr(r, expr.callee), expr.arguments, 1)

resolver_visit_set_expr(r, expr) ==
    resolve_expr(resolve_expr(r, expr.value), expr.obj)

resolver_visit_this_expr(r, expr) ==
    resolve_local(
        IF r.current_class = "NONE"
        THEN resolver_error(r, "Can't use 'this' outside of a class.")
        ELSE r,
        expr.id, "this")

resolver_visit_super_expr(r, expr) ==
    resolve_local(
        IF r.current_class = "NONE"
        THEN resolver_error(r, "Can't use 'super' outside of a class.")
        ELSE IF r.current_class # "SUBCLASS"
        THEN resolver_error(r,
                 "Can't use 'super' in a class with no superclass.")
        ELSE r,
        expr.id, "super")

\* stmt.accept(self) / expr.accept(self)
resolve_stmt(r0, node) == Bind(r0, LAMBDA r :
    CASE node.type = "Block" -> resolver_visit_block_stmt(r, node)
      [] node.type = "Class" -> resolver_visit_class_stmt(r, node)
      [] node.type = "Expression" -> resolve_stmt(r, node.expression)
      [] node.type = "Function" -> resolver_visit_function_stmt(r, node)
      [] node.type = "If" -> resolver_visit_if_stmt(r, node)
      [] node.type = "Print" -> resolve_expr(r, node.expression)
      [] node.type = "Return" -> resolver_visit_return_stmt(r, node)
      [] node.type = "While" -> resolver_visit_while_stmt(r, node)
      [] node.type = "Break" -> resolver_visit_break_stmt(r, node)
      [] node.type = "Let" -> resolver_visit_var_stmt(r, node)
      [] node.type = "Letiable" -> resolver_visit_variable_expr(r, node)
      [] node.type = "Assign" -> resolver_visit_assign_expr(r, node)
      [] node.type = "Binary" ->
            resolve_expr(resolve_expr(r, node.left), node.right)
      [] node.type = "Call" -> resolver_visit_call_expr(r, node)
      [] node.type = "Get" -> resolve_expr(r, node.obj)
      [] node.type = "Grouping" -> resolve_expr(r, node.expression)
      [] node.type = "Literal" -> r
      [] node.type = "Logical" ->
            resolve_expr(resolve_expr(r, node.left), node.right)
      [] node.type = "Set" -> resolver_visit_set_expr(r, node)
      [] node.type = "Super" -> resolver_visit_super_expr(r, node)
      [] node.type = "This" -> resolver_visit_this_expr(r, node)
      [] node.type = "Unary" -> resolve_expr(r, node.right))

resolve_expr(r, expr) == resolve_stmt(r, expr)

resolve_stmts(r, statements, i) ==
    IF i > Len(statements) THEN r
    ELSE Bind(resolve_stmt(r, statements[i]),
              LAMBDA r1 : resolve_stmts(r1, statements, i + 1))

resolve_methods(r, methods, i) ==
    IF i > Len(methods) THEN r
    ELSE Bind(resolve_function(r, methods[i],
                IF methods[i].name = "init" THEN "INITIALIZR" ELSE "METHOD"),
              LAMBDA r1 : resolve_methods(r1, methods, i + 1))

(***************************************************************************)
(* Interpreter (interpreter.py, environment.py, callable.py, native.py).   *)
(*                                                                         *)
(* st is the interpreter's state while one statement or callback runs:     *)
(*   environment  the active frame (an index into frames; globals is 1)    *)
(*   frames       the Environment objects: values and enclosing (0 = None) *)
(*   functions    the HootFunction objects                                 *)
(*   classes      the HootClass objects                                    *)
(*   instances    the HootInstance objects                                 *)
(*   output       what print wrote, with who wrote it                      *)
(*   tasks        the asyncio tasks created so far: the native that made   *)
(*                the task, its callback, how far it is, the result of its *)
(*                blocking function (data: FALSE when it failed), who      *)
(*                created it, whether its callback was called, and how the *)
(*                call ended (sig, error)                                  *)
(*   written      copies of the data written to the file                   *)
(*   sig, val, msg  how the evaluation ended: "none" with its value, or    *)
(*                the exception in flight: "rterr" (error.RuntimeError),   *)
(*                "break" (BreakJump), "return" (ReturnBubble), "pyerr"    *)
(*                (any other Python exception), with its message           *)
(*   who          "main" for the top-level program, "task" for a callback  *)
(*   open_ok      whether open() in Write.call succeeds in this step       *)
(*   unwound      a break signal left the body of a called function        *)
(*   fell_back    get_at or assign_at found no frame at the distance, or   *)
(*                no binding of the name in the frame it reached           *)
(***************************************************************************)
globals == 1

Raise(st, sig, msg) == [st EXCEPT !.sig = sig, !.msg = msg]

Result(st, value) == [st EXCEPT !.val = value]

Failed(st) == st.sig # "none"

\* Environment.__init__: the new frame is the last of st.frames
Environment(st, enclosing) ==
    [st EXCEPT !.frames =
        Append(@, [values |-> EmptyMap, enclosing |-> enclosing])]

env_define(st, frame, name, value) ==
    [st EXCEPT !.frames[frame].values = (name :> value) @@ @]

\* 0 when the walk runs off the end of the chain (None in the source)
RECURSIVE ancestor(_, _, _)
ancestor(frames, frame, distance) ==
    IF distance = 0 \/ frame = 0 THEN frame
    ELSE ancestor(frames, frames[frame].enclosing, distance - 1)

\* values.get(name) is None when the frame has no such name
get_at(st, frame, distance, name) ==
    LET a == ancestor(st.frames, frame, distance)
    IN IF a = 0
       THEN Raise([st EXCEPT !.fell_back = TRUE], "pyerr", "AttributeError")
       ELSE IF name \in DOMAIN st.frames[a].values
       THEN Result(st, st.frames[a].values[name])
       ELSE Result([st EXCEPT !.fell_back = TRUE], Nil)

assign_at(st, frame, distance, name, value) ==
    LET a == ancestor(st.frames, frame, distance)
    IN IF a = 0
       THEN Raise([st EXCEPT !.fell_back = TRUE], "pyerr", "AttributeError")
       ELSE IF name \in DOMAIN st.frames[a].values
       THEN env_define(st, a, name, value)
       ELSE env_define([st EXCEPT !.fell_back = TRUE], a, name, value)

RECURSIVE env_get(_, _, _)
env_get(st, frame, name) ==
    IF name \in DOMAIN st.frames[frame].values
    THEN Result(st, st.frames[frame].values[name])
    ELSE IF st.frames[frame].enclosing # 0
         THEN env_get(st, st.frames[frame].enclosing, name)
         ELSE Raise(st, "rterr", "Undefined variable '" \o name \o "'.")

\* the name is bound in the frame when the frame does not hold it
env_assign_creates(st, frame, name, value) ==
    env_define(st, frame, name, value)

RECURSIVE env_assign(_, _, _, _)
env_assign(st, frame, name, value) ==
    IF name \in DOMAIN st.frames[frame].values
    THEN env_define(st, frame, name, value)
    ELSE IF st.frames[frame].enclosing # 0
         THEN env_assign(st, st.frames[frame].enclosing, name, value)
         ELSE Raise(st, "rterr", "Undefined variable '" \o name \o "'.")

is_truthy(value) ==
    IF value.t = "nil" THEN FALSE
    ELSE IF value.t = "bool" THEN value.v = 1
    ELSE TRUE

has_call(value) == value.t \in {"fn", "class"} \cup NativeNames

\* HootInstance.__repr__, HootClass.__repr__, HootFunction.__repr__, the
\* natives' __repr__ and Python's str() of a float and a bool
stringify(st, value) ==
    CASE value.t = "nil" -> "nil"
      [] value.t = "num" -> ToString(value.v) \o ".0"
      [] value.t = "bool" -> IF value.v = 1 THEN "True" ELSE "False"
      [] value.t = "str" -> value.v
      [] value.t = "fn" ->
            "<fn " \o st.functions[value.v].declaration.name \o ">"
      [] value.t = "class" -> st.classes[value.v].name
      [] value.t = "inst" ->
            st.classes[st.instances[value.v].klass].name \o " instance"
      [] value.t \in NativeNames -> "<native fn>"

\* HootClass.find_method: 0 when no class of the chain has the method
RECURSIVE find_method(_, _, _)
find_method(classes, klass, name) ==
    IF name \in DOMAIN classes[klass].methods
    THEN classes[klass].methods[name]
    ELSE IF classes[klass].superclass # 0
         THEN find_method(classes, classes[klass].superclass, name)
         ELSE 0

\* HootFunction.bind: the bound method is the last of st.functions
bind(st, fn, instance) ==
    LET s1 == Environment(st, st.functions[fn].closure)
        s2 == env_define(s1, Len(s1.frames), "this", Val("inst", instance))
    IN [s2 EXCEPT !.functions =
           Append(@, [declaration |-> st.functions[fn].declaration,
                      closure |-> Len(s1.frames),
                      is_initializer |-> st.functions[fn].is_initializer])]

\* the methods of the class chain are looked up before the fields
HootInstance_get_method_first(st, instance, name) ==
    LET method == find_method(st.classes, st.instances[instance].klass, name)
    IN IF method # 0
       THEN Bind(bind(st, method, instance), LAMBDA s1 :
                Result(s1, Val("fn", Len(s1.functions))))
       ELSE IF name \in DOMAIN st.instances[instance].fields
       THEN Result(st, st.instances[instance].fields[name])
       ELSE Raise(st, "pyerr", "Undefined property '" \o name \o "'.")

\* HootInstance.get: the error raised is Python's own RuntimeError, since
\* callable.py does not import the RuntimeError of error.py
HootInstance_get(st, instance, name) ==
    IF name \in DOMAIN st.instances[instance].fields
    THEN Result(st, st.instances[instance].fields[name])
    ELSE LET method == find_method(st.classes,
                                   st.instances[instance].klass, name)
         IN IF method # 0
            THEN LET s1 == bind(st, method, instance)
                 IN Result(s1, Val("fn", Len(s1.functions)))
            ELSE Raise(st, "pyerr", "Undefined property '" \o name \o "'.")

native_arity(name) ==
    CASE name = "input" -> 1
      [] name = "read" -> 2
      [] name = "write" -> 4
      [] name = "clock" -> 0
      [] name = "delay" -> 2
      [] name = "request" -> 5
      [] name = "string" -> 1
      [] name = "list" -> -1
      [] name = "map" -> 0

arity(st, callee) ==
    CASE callee.t = "fn" -> Len(st.functions[callee.v].declaration.params)
      [] callee.t = "class" ->
            LET initializer == find_method(st.classes, callee.v, "init")
            IN IF initializer = 0 THEN 0
               ELSE Len(st.functions[initializer].declaration.params)
      [] callee.t \in NativeNames -> native_arity(callee.t)

\* asyncio.create_task
create_task(st, kind, callback) ==
    [st EXCEPT !.tasks = Append(@, [kind |-> kind, callback |-> callback,
                                    state |-> "created", data |-> FALSE,
                                    by |-> st.who, called |-> FALSE,
                                    sig |-> "none", error |-> ""])]

Delay_call(st, arguments) ==
    Result(create_task(st, "delay", arguments[1]), Num(0))

Read_call(st, arguments) ==
    Result(create_task(st, "read", arguments[2]), Nil)

\* Write.call creates the task and then opens and writes the file itself
Write_call(st, arguments) ==
    LET s1 == create_task(st, "write", arguments[4])
    IN IF st.open_ok
       THEN Result([s1 EXCEPT !.written = @ + 1], Nil)
       ELSE Raise(s1, "pyerr", "OSError")

Request_call(st, arguments) ==
    Result(create_task(st, "request", arguments[5]), Nil)

RECURSIVE evaluate(_, _)
RECURSIVE execute(_, _)
RECURSIVE execute_stmts(_, _, _)
RECURSIVE evaluate_arguments(_, _, _, _)
RECURSIVE call(_, _, _)

\* the previous environment is not restored when a runtime error ends the
\* block
execute_block_keeps_on_error(st, statements, environment) ==
    LET previous == st.environment
        s1 == execute_stmts([st EXCEPT !.environment = environment],
                            statements, 1)
    IN Bind(s1, LAMBDA s2 :
         IF s2.sig = "rterr" THEN s2
         ELSE [s2 EXCEPT !.environment = previous])

\* the previous environment is restored only when the block runs to its end
execute_block_no_finally(st, statements, environment) ==
    LET previous == st.environment
        s1 == execute_stmts([st EXCEPT !.environment = environment],
                            statements, 1)
    IN Bind(s1, LAMBDA s2 :
         IF Failed(s2) THEN s2 ELSE [s2 EXCEPT !.environment = previous])

\* Interpreter.execute_block: the previous environment is restored on every
\* exit path (try/finally)
execute_block(st, statements, environment) ==
    LET previous == st.environment
        s1 == execute_stmts([st EXCEPT !.environment = environment],
                            statements, 1)
    IN Bind(s1, LAMBDA s2 : [s2 EXCEPT !.environment = previous])

\* the frame of the call is made over the caller's current frame
HootFunction_call_over_caller(st, fn, arguments) ==
    LET function == st.functions[fn]
        params == function.declaration.params
        environment == Len(st.frames) + 1
        DefineParams[i \in 0..Len(params)] ==
            IF i = 0 THEN Environment(st, st.environment)
            ELSE env_define(DefineParams[i - 1], environment,
                            params[i], arguments[i])
    IN IF Len(arguments) < Len(params)
       THEN Raise(Environment(st, st.environment), "pyerr", "IndexError")
       ELSE Bind(execute_block(DefineParams[Len(params)],
                               function.declaration.body, environment),
                 LAMBDA s2 :
            LET this == get_at(s2, function.closure, 0, "this").val
            IN CASE s2.sig = "return" ->
                      [s2 EXCEPT !.sig = "none", !.msg = "",
                                 !.val = IF function.is_initializer
                                         THEN this ELSE s2.val]
                 [] s2.sig = "none" ->
                      Result(s2, IF function.is_initializer
                                 THEN this ELSE Nil)
                 [] s2.sig = "break" -> [s2 EXCEPT !.unwound = TRUE]
                 [] OTHER -> s2)

\* an initializer gives back what its body returns
HootFunction_call_returns_value(st, fn, arguments) ==
    LET function == st.functions[fn]
        params == function.declaration.params
        environment == Len(st.frames) + 1
        DefineParams[i \in 0..Len(params)] ==
            IF i = 0 THEN Environment(st, function.closure)
            ELSE env_define(DefineParams[i - 1], environment,
                            params[i], arguments[i])
    IN IF Len(arguments) < Len(params)
       THEN Raise(Environment(st, function.closure), "pyerr", "IndexError")
       ELSE Bind(execute_block(DefineParams[Len(params)],
                               function.declaration.body, environment),
                 LAMBDA s2 :
               CASE s2.sig = "return" ->
                      [s2 EXCEPT !.sig = "none", !.msg = "",
                                 !.val = s2.val]
                 [] s2.sig = "none" ->
                      Result(s2, Nil)
                 [] s2.sig = "break" -> [s2 EXCEPT !.unwound = TRUE]
                 [] OTHER -> s2)

\* HootFunction.call: only ReturnBubble is caught
HootFunction_call(st, fn, arguments) ==
    LET function == st.functions[fn]
        params == function.declaration.params
        environment == Len(st.frames) + 1
        DefineParams[i \in 0..Len(params)] ==
            IF i = 0 THEN Environment(st, function.closure)
            ELSE env_define(DefineParams[i - 1], environment,
                            params[i], arguments[i])
    IN IF Len(arguments) < Len(params)
       THEN Raise(Environment(st, function.closure), "pyerr", "IndexError")
       ELSE Bind(execute_block(DefineParams[Len(params)],
                               function.declaration.body, environment),
                 LAMBDA s2 :
            LET this == get_at(s2, function.closure, 0, "this").val
            IN CASE s2.sig = "return" ->
                      [s2 EXCEPT !.sig = "none", !.msg = "",
                                 !.val = IF function.is_initializer
                                         THEN this ELSE s2.val]
                 [] s2.sig = "none" ->
                      Result(s2, IF function.is_initializer
                                 THEN this ELSE Nil)
                 [] s2.sig = "break" -> [s2 EXCEPT !.unwound = TRUE]
                 [] OTHER -> s2)

HootClass_call(st, klass, arguments) ==
    LET instance == Len(st.instances) + 1
        initializer == find_method(st.classes, klass, "init")
    IN Bind([st EXCEPT !.instances =
                Append(@, [klass |-> klass, fields |-> EmptyMap])],
            LAMBDA s1 :
         IF initializer # 0
         THEN Bind(bind(s1, initializer, instance), LAMBDA s2 :
              Bind(HootFunction_call(s2, Len(s2.functions), arguments),
                   LAMBDA s3 :
                IF Failed(s3) THEN s3
                ELSE Result(s3, Val("inst", instance))))
         ELSE Result(s1, Val("inst", instance)))

\* callee.call(interpreter, arguments, token); a value with no call method
\* gives Python's AttributeError.  The natives input, clock, string, list
\* and map are not called by any program of the model.
call(st0, callee, arguments) == Bind(st0, LAMBDA st :
    CASE callee.t = "fn" -> HootFunction_call(st, callee.v, arguments)
      [] callee.t = "class" -> HootClass_call(st, callee.v, arguments)
      [] callee.t = "delay" -> Delay_call(st, arguments)
      [] callee.t = "read" -> Read_call(st, arguments)
      [] callee.t = "write" -> Write_call(st, arguments)
      [] callee.t = "request" -> Request_call(st, arguments)
      [] ~has_call(callee) -> Raise(st, "pyerr", "AttributeError"))

look_up_variable(st, name, expr) ==
    IF expr.id \in DOMAIN st.locals
    THEN get_at(st, st.environment, st.locals[expr.id], name)
    ELSE env_get(st, globals, name)

visit_assign_expr(st, expr) ==
    Bind(evaluate(st, expr.value), LAMBDA s1 :
      IF Failed(s1) THEN s1
      ELSE Bind(IF expr.id \in DOMAIN s1.locals
                THEN assign_at(s1, s1.environment, s1.locals[expr.id],
                               expr.name, s1.val)
                ELSE env_assign(s1, globals, expr.name, s1.val),
                LAMBDA s2 :
             IF Failed(s2) THEN s2 ELSE Result(s2, s1.val)))

visit_call_expr(st, expr) ==
    Bind(evaluate(st, expr.callee), LAMBDA s1 :
      IF Failed(s1) THEN s1
      ELSE Bind(evaluate_arguments(s1, expr.arguments, 1, <<>>),
                LAMBDA s2 :
        IF Failed(s2) THEN s2
        ELSE IF ~has_call(s1.val)
             THEN Raise(s2, "rterr", "Can only call functions and classes.")
        ELSE Bind(arity(s2, s1.val), LAMBDA n :
          IF Len(s2.val) # n /\ n # -1
          THEN Raise(s2, "rterr",
                     "Expected " \o ToString(n) \o " arguments but got "
                     \o ToString(Len(s2.val)) \o ".")
          ELSE call(s2, s1.val, s2.val))))

visit_get_expr(st, expr) ==
    Bind(evaluate(st, expr.obj), LAMBDA s1 :
      IF Failed(s1) THEN s1
      ELSE IF s1.val.t = "inst"
           THEN HootInstance_get(s1, s1.val.v, expr.name)
           ELSE Raise(s1, "rterr", "Only instances have properties"))

visit_set_expr(st, expr) ==
    Bind(evaluate(st, expr.obj), LAMBDA s1 :
      IF Failed(s1) THEN s1
      ELSE IF s1.val.t # "inst"
           THEN Raise(s1, "rterr", "Only instances have fields.")
      ELSE Bind(evaluate(s1, expr.value), LAMBDA s2 :
        IF Failed(s2) THEN s2
        ELSE [s2 EXCEPT !.instances[s1.val.v].fields =
                           (expr.name :> s2.val) @@ @]))

visit_unary_expr(st, expr) ==
    Bind(evaluate(st, expr.right), LAMBDA s1 :
      IF Failed(s1) THEN s1
      ELSE IF expr.operator = "-"
           THEN IF s1.val.t = "num"
                THEN Result(s1, Num(0 - s1.val.v))
                ELSE Raise(s1, "rterr", "Operand must be a number")
           ELSE Result(s1, Bool(~is_truthy(s1.val))))

\* type(left) == float and type(right) == float
check_number_operands(left, right) == left.t = "num" /\ right.t = "num"

\* Python's left == right: a bool is an int, so True == 1.0 and
\* False == 0.0; str and float compare by value; None equals only None;
\* an instance, a function, a class or a native equals only itself
is_equal(left, right) ==
    IF left.t \in {"num", "bool"} /\ right.t \in {"num", "bool"}
    THEN left.v = right.v
    ELSE left.t = right.t /\ left.v = right.v

\* The model has no arm for "/": its quotient need not have an integer
\* value.
visit_binary_expr(st, expr) ==
    Bind(evaluate(st, expr.left), LAMBDA s1 :
      IF Failed(s1) THEN s1
      ELSE Bind(evaluate(s1, expr.right), LAMBDA s2 :
        IF Failed(s2) THEN s2
        ELSE LET left == s1.val
                 right == s2.val
                 numbers == check_number_operands(left, right)
                 operand_error ==
                     Raise(s2, "rterr", "Operand must be a number")
             IN CASE expr.operator = "-" ->
                       IF numbers THEN Result(s2, Num(left.v - right.v))
                       ELSE operand_error
                  [] expr.operator = "*" ->
                       IF numbers THEN Result(s2, Num(left.v * right.v))
                       ELSE operand_error
                  [] expr.operator = "+" ->
                       IF numbers THEN Result(s2, Num(left.v + right.v))
                       ELSE IF left.t = "str" /\ right.t = "str"
                       THEN Result(s2, Str(left.v \o right.v))
                       ELSE Raise(s2, "rterr",
                              "Operands must be two numbers or two strings.")
                  [] expr.operator = ">" ->
                       IF numbers THEN Result(s2, Bool(left.v > right.v))
                       ELSE operand_error
                  [] expr.operator = ">=" ->
                       IF numbers THEN Result(s2, Bool(left.v >= right.v))
                       ELSE operand_error
                  [] expr.operator = "<" ->
                       IF numbers THEN Result(s2, Bool(left.v < right.v))
                       ELSE operand_error
                  [] expr.operator = "<=" ->
                       IF numbers THEN Result(s2, Bool(left.v <= right.v))
                       ELSE operand_error
                  [] expr.operator = "!=" ->
                       Result(s2, Bool(~is_equal(left, right)))
                  [] expr.operator = "==" ->
                       Result(s2, Bool(is_equal(left, right)))))

visit_logical_expr(st, expr) ==
    Bind(evaluate(st, expr.left), LAMBDA s1 :
      IF Failed(s1) THEN s1
      ELSE IF expr.operator = "or"
           THEN IF is_truthy(s1.val) THEN s1
                ELSE evaluate(s1, expr.right)
           ELSE IF ~is_truthy(s1.val) THEN s1
                ELSE evaluate(s1, expr.right))

\* the method is looked up from the class of the receiver
visit_super_expr_from_receiver(st, expr) ==
    LET distance == IF expr.id \in DOMAIN st.locals /\ st.locals[expr.id] # 0
                    THEN st.locals[expr.id]
                    ELSE -1
    IN IF distance = -1
       THEN Raise(st, "rterr", "Distance error.")
       ELSE Bind(get_at(st, st.environment, distance, "super"), LAMBDA s1 :
            IF Failed(s1) THEN s1
            ELSE Bind(get_at(s1, s1.environment, distance - 1, "this"),
                      LAMBDA s2 :
              IF Failed(s2) THEN s2
              ELSE IF s1.val.t # "class"
                   THEN Raise(s2, "pyerr", "AttributeError")
              ELSE Bind(find_method(s2.classes, s2.instances[s2.val.v].klass,
                                    expr.method),
                        LAMBDA method :
                IF method = 0
                THEN Raise(s2, "rterr", "Undefined property '"
                                        \o expr.method \o "'.")
                ELSE Bind(bind(s2, method, s2.val.v), LAMBDA s3 :
                       Result(s3, Val("fn", Len(s3.functions)))))))

\* "self.locals.get(expr) or -1": a distance of 0 counts as no distance
visit_super_expr(st, expr) ==
    LET distance == IF expr.id \in DOMAIN st.locals /\ st.locals[expr.id] # 0
                    THEN st.locals[expr.id]
                    ELSE -1
    IN IF distance = -1
       THEN Raise(st, "rterr", "Distance error.")
       ELSE Bind(get_at(st, st.environment, distance, "super"), LAMBDA s1 :
            IF Failed(s1) THEN s1
            ELSE Bind(get_at(s1, s1.environment, distance - 1, "this"),
                      LAMBDA s2 :
              IF Failed(s2) THEN s2
              ELSE IF s1.val.t # "class"
                   THEN Raise(s2, "pyerr", "AttributeError")
              ELSE Bind(find_method(s2.classes, s1.val.v, expr.method),
                        LAMBDA method :
                IF method = 0
                THEN Raise(s2, "rterr", "Undefined property '"
                                        \o expr.method \o "'.")
                ELSE Bind(bind(s2, method, s2.val.v), LAMBDA s3 :
                       Result(s3, Val("fn", Len(s3.functions)))))))

\* expr.accept(self)
evaluate(st0, expr) == Bind(st0, LAMBDA st :
    CASE expr.type = "Literal" -> Result(st, expr.value)
      [] expr.type = "Grouping" -> evaluate(st, expr.expression)
      [] expr.type = "Letiable" -> look_up_variable(st, expr.name, expr)
      [] expr.type = "This" -> look_up_variable(st, "this", expr)
      [] expr.type = "Assign" -> visit_assign_expr(st, expr)
      [] expr.type = "Call" -> visit_call_expr(st, expr)
      [] expr.type = "Get" -> visit_get_expr(st, expr)
      [] expr.type = "Set" -> visit_set_expr(st, expr)
      [] expr.type = "Unary" -> visit_unary_expr(st, expr)
      [] expr.type = "Binary" -> visit_binary_expr(st, expr)
      [] expr.type = "Logical" -> visit_logical_expr(st, expr)
      [] expr.type = "Super" -> visit_super_expr(st, expr))

evaluate_arguments(st, arguments, i, values) ==
    IF i > Len(arguments) THEN Result(st, values)
    ELSE Bind(evaluate(st, arguments[i]), LAMBDA s1 :
              IF Failed(s1) THEN s1
              ELSE evaluate_arguments(s1, arguments, i + 1,
                                      Append(values, s1.val)))

\* Interpreter.visit_class_stmt
visit_class_stmt(st, stmt) ==
    LET has_super == stmt.superclass.type # "None"
    IN Bind(IF has_super THEN evaluate(st, stmt.superclass)
            ELSE Result(st, Nil),
            LAMBDA s1 :
      IF Failed(s1) THEN s1
      ELSE IF has_super /\ s1.val.t # "class"
           THEN Raise(s1, "rterr", "Superclass must be a class.")
      ELSE Bind(env_define(s1, s1.environment, stmt.name, Nil), LAMBDA s2 :
           Bind(IF has_super
                THEN [env_define(Environment(s2, s2.environment),
                                 Len(s2.frames) + 1, "super", s1.val)
                        EXCEPT !.environment = Len(s2.frames) + 1]
                ELSE s2,
                LAMBDA s3 :
             LET Methods[i \in 0..Len(stmt.methods)] ==
                   IF i = 0 THEN [fs |-> s3.functions, table |-> EmptyMap]
                   ELSE [fs |-> Append(Methods[i - 1].fs,
                            [declaration |-> stmt.methods[i],
                             closure |-> s3.environment,
                             is_initializer |->
                                 stmt.methods[i].name = "init"]),
                         table |-> (stmt.methods[i].name :>
                                       (Len(Methods[i - 1].fs) + 1))
                                   @@ Methods[i - 1].table]
             IN Bind(Methods[Len(stmt.methods)], LAMBDA built :
                Bind([s3 EXCEPT
                        !.functions = built.fs,
                        !.classes = Append(@,
                            [name |-> stmt.name,
                             superclass |-> IF has_super THEN s1.val.v
                                            ELSE 0,
                             methods |-> built.table]),
                        !.environment = IF has_super
                                        THEN s3.frames[@].enclosing
                                        ELSE @],
                     LAMBDA s5 :
                  env_assign(s5, s5.environment, stmt.name,
                             Val("class", Len(s5.classes))))))))

visit_function_stmt(st, stmt) ==
    LET s1 == [st EXCEPT !.functions =
                  Append(@, [declaration |-> stmt,
                             closure |-> st.environment,
                             is_initializer |-> FALSE])]
    IN env_define(s1, s1.environment, stmt.name,
                  Val("fn", Len(s1.functions)))

visit_if_stmt(st, stmt) ==
    Bind(evaluate(st, stmt.condition), LAMBDA s1 :
      IF Failed(s1) THEN s1
      ELSE IF is_truthy(s1.val) THEN execute(s1, stmt.then_branch)
      ELSE IF stmt.else_branch.type # "None"
           THEN execute(s1, stmt.else_branch)
      ELSE s1)

visit_print_stmt(st, stmt) ==
    Bind(evaluate(st, stmt.expression), LAMBDA s1 :
      IF Failed(s1) THEN s1
      ELSE [s1 EXCEPT !.output =
               Append(@, [who |-> s1.who, text |-> stringify(s1, s1.val)])])

\* raise ReturnBubble(value)
visit_return_stmt(st, stmt) ==
    Bind(IF stmt.value.type # "None"
         THEN evaluate(st, stmt.value)
         ELSE Result(st, Nil),
         LAMBDA s1 : IF Failed(s1) THEN s1 ELSE Raise(s1, "return", ""))

visit_var_stmt(st, stmt) ==
    Bind(IF stmt.initializer.type # "None"
         THEN evaluate(st, stmt.initializer)
         ELSE Result(st, Nil),
         LAMBDA s1 :
           IF Failed(s1) THEN s1
           ELSE env_define(s1, s1.environment, stmt.name, s1.val))

\* Interpreter.visit_while_stmt: BreakJump raised by the body ends the loop.
\* The model cuts a loop off after MaxIter iterations ("cutoff").
RECURSIVE while_loop(_, _, _)
while_loop(st, stmt, n) ==
    Bind(evaluate(st, stmt.condition), LAMBDA s1 :
      IF Failed(s1) THEN s1
      ELSE IF ~is_truthy(s1.val) THEN s1
      ELSE IF n >= MaxIter THEN Raise(s1, "cutoff", "")
      ELSE Bind(execute(s1, stmt.body), LAMBDA s2 :
        IF s2.sig = "break" THEN [s2 EXCEPT !.sig = "none", !.msg = ""]
        ELSE IF Failed(s2) THEN s2
        ELSE while_loop(s2, stmt, n + 1)))

visit_while_stmt(st, stmt) == while_loop(st, stmt, 0)

\* raise BreakJump(Token(BREAK, "break", None, "?"), "Breaking.")
visit_break_stmt(st, stmt) == Raise(st, "break", "Breaking.")

visit_block_stmt(st, stmt) ==
    LET s1 == Environment(st, st.environment)
    IN execute_block(s1, stmt.statements, Len(s1.frames))

\* stmt.accept(self)
execute(st0, stmt) == Bind(st0, LAMBDA st :
    CASE stmt.type = "Block" -> visit_block_stmt(st, stmt)
      [] stmt.type = "Class" -> visit_class_stmt(st, stmt)
      [] stmt.type = "Expression" -> evaluate(st, stmt.expression)
      [] stmt.type = "Function" -> visit_function_stmt(st, stmt)
      [] stmt.type = "If" -> visit_if_stmt(st, stmt)
      [] stmt.type = "Print" -> visit_print_stmt(st, stmt)
      [] stmt.type = "Return" -> visit_return_stmt(st, stmt)
      [] stmt.type = "Let" -> visit_var_stmt(st, stmt)
      [] stmt.type = "While" -> visit_while_stmt(st, stmt)
      [] stmt.type = "Break" -> visit_break_stmt(st, stmt))

execute_stmts(st, statements, i) ==
    IF i > Len(statements) THEN st
    ELSE Bind(execute(st, statements[i]), LAMBDA s1 :
              IF Failed(s1) THEN s1
              ELSE execute_stmts(s1, statements, i + 1))

(***************************************************************************)
(* The scanner.  The text is a sequence of characters, each a string of    *)
(* length one; start and current count the characters before the position *)
(* as in the code.  A token is its type, its lexeme and its line; its      *)
(* literal is left out.  isalpha and isdigit are those of the ASCII        *)
(* letters and digits.                                                     *)
(***************************************************************************)
Letters ==
    {"a", "b", "c", "d", "e", "f", "g", "h", "i", "j", "k", "l", "m",
     "n", "o", "p", "q", "r", "s", "t", "u", "v", "w", "x", "y", "z",
     "A", "B", "C", "D", "E", "F", "G", "H", "I", "J", "K", "L", "M",
     "N", "O", "P", "Q", "R", "S", "T", "U", "V", "W", "X", "Y", "Z"}

Digits == {"0", "1", "2", "3", "4", "5", "6", "7", "8", "9"}

\* what peek and peek_next give at the end of the text
NUL == "NUL"

keywords ==
    ("and" :> "AND") @@
    ("break" :> "BREAK") @@
    ("class" :> "CLASS") @@
    ("else" :> "ELSE") @@
    ("false" :> "FALSE") @@
    ("for" :> "FOR") @@
    ("fun" :> "FUN") @@
    ("if" :> "IF") @@
    ("nil" :> "NIL") @@
    ("or" :> "OR") @@
    ("print" :> "PRINT") @@
    ("return" :> "RETURN") @@
    ("super" :> "SUPER") @@
    ("this" :> "THIS") @@
    ("true" :> "TRUE") @@
    ("let" :> "LET") @@
    ("while" :> "WHILE")

\* Scanner.__init__
ScannerInit(text) ==
    [source |-> text, start |-> 0, current |-> 0, line |-> 1,
     tokens |-> <<>>, reported |-> <<>>]

is_at_end(sc) == sc.current >= Len(sc.source)

\* the character consumed is sc.source[sc.current + 1]
advance(sc) == [sc EXCEPT !.current = @ + 1]

peek(sc) == IF is_at_end(sc) THEN NUL ELSE sc.source[sc.current + 1]

peek_next(sc) ==
    IF sc.current + 1 >= Len(sc.source) THEN NUL
    ELSE sc.source[sc.current + 2]

\* the test of Scanner.match; the caller advances when it holds
match(sc, expected) ==
    ~is_at_end(sc) /\ sc.source[sc.current + 1] = expected

\* the string made of a sequence of characters
RECURSIVE Join(_)
Join(chars) ==
    IF chars = <<>> THEN "" ELSE Head(chars) \o Join(Tail(chars))

\* self.source[self.start:self.current]
lexeme(sc) == Join(SubSeq(sc.source, sc.start + 1, sc.current))

add_token(sc, type_) ==
    [sc EXCEPT !.tokens = Append(@, [type_ |-> type_, lexeme |-> lexeme(sc),
                                     line |-> sc.line])]

\* hoot.report and hoot.error called by the scanner
report(sc, message) == [sc EXCEPT !.reported = Append(@, message)]

is_digit(c) == c \in Digits

is_alpha(c) == c \in Letters \/ c = "_"

is_alpha_numeric(c) == is_digit(c) \/ is_alpha(c)

\* while self.is_alpha_numeric(self.peek()): self.advance()
RECURSIVE identifier_loop(_)
identifier_loop(sc) ==
    IF is_alpha_numeric(peek(sc)) THEN identifier_loop(advance(sc)) ELSE sc

identifier(sc) ==
    Bind(identifier_loop(sc), LAMBDA s1 :
        add_token(s1, IF lexeme(s1) \in DOMAIN keywords
                      THEN keywords[lexeme(s1)] ELSE "IDENTIFIER"))

\* while self.peek().isdigit(): self.advance()
RECURSIVE number_loop(_)
number_loop(sc) ==
    IF peek(sc) \in Digits THEN number_loop(advance(sc)) ELSE sc

number(sc) ==
    Bind(number_loop(sc), LAMBDA s1 :
        add_token(number_loop(IF peek(s1) = "." /\ peek_next(s1) \in Digits
                              THEN advance(s1) ELSE s1),
                  "NUMBER"))

RECURSIVE string_loop(_)
string_loop(sc) ==
    IF peek(sc) # "\"" /\ ~is_at_end(sc)
    THEN string_loop(advance(IF peek(sc) = "\n"
                             THEN [sc EXCEPT !.line = @ + 1] ELSE sc))
    ELSE sc

string(sc) ==
    Bind(string_loop(sc), LAMBDA s1 :
        IF is_at_end(s1) THEN report(s1, "Unterminated string.")
        ELSE add_token(advance(s1), "STRING"))

\* a comment goes until the end of the line
RECURSIVE comment_loop(_)
comment_loop(sc) ==
    IF peek(sc) # "\n" /\ ~is_at_end(sc) THEN comment_loop(advance(sc))
    ELSE sc

\* an operator of one character, or of two when "=" follows
one_or_two(sc, two, one) ==
    IF match(sc, "=") THEN add_token(advance(sc), two)
    ELSE add_token(sc, one)

\* Scanner.scan_token, with c the character that advance returns
scan_token_of(sc, c) ==
    CASE c = "(" -> add_token(sc, "LEFT_PAREN")
      [] c = ")" -> add_token(sc, "RIGHT_PAREN")
      [] c = "{" -> add_token(sc, "LEFT_BRACE")
      [] c = "}" -> add_token(sc, "RIGHT_BRACE")
      [] c = "," -> add_token(sc, "COMMA")
      [] c = "." -> add_token(sc, "DOT")
      [] c = "-" -> add_token(sc, "MINUS")
      [] c = "+" -> add_token(sc, "PLUS")
      [] c = ";" -> add_token(sc, "SEMICOLON")
      [] c = "*" -> add_token(sc, "STAR")
      [] c = "!" -> one_or_two(sc, "BANG_EQUAL", "BANG")
      [] c = "=" -> one_or_two(sc, "EQUAL_EQUAL", "EQUAL")
      [] c = "<" -> one_or_two(sc, "LESS_EQUAL", "LESS")
      [] c = ">" -> one_or_two(sc, "GREATER_EQUAL", "GREATER")
      [] c = "/" -> IF match(sc, "/") THEN comment_loop(advance(sc))
                    ELSE add_token(sc, "SLASH")
      [] c \in {" ", "\r", "\t"} -> sc
      [] c = "\n" -> [sc EXCEPT !.line = @ + 1]
      [] c = "\"" -> string(sc)
      [] OTHER -> IF c \in Digits THEN number(sc)
                  ELSE IF c \in Letters THEN identifier(sc)
                  ELSE report(sc, "Unexpected character.")

scan_token(sc) == scan_token_of(advance(sc), sc.source[sc.current + 1])

(***************************************************************************)
(* The parser (parser_.py), on lists of tokens.  The parser is a record:   *)
(* tokens and current as in the code (current counts from 0), statements   *)
(* the list parse() builds, reported the messages handed to hoot.error,    *)
(* raised whether a ParseError is on its way up, node the value the last   *)
(* call returned (a node is kept as its class), ok the result of match.    *)
(* begun logs the value of current at each call of declaration, resumed    *)
(* the value of current before and after each call of synchronize.         *)
(***************************************************************************)
ParserInit(types) ==
    [tokens |-> [i \in 1..Len(types) |-> [type_ |-> types[i]]],
     current |-> 0, statements |-> <<>>, reported |-> <<>>,
     raised |-> FALSE, node |-> None, ok |-> FALSE,
     begun |-> <<>>, resumed |-> <<>>]

\* F applied to the parser a call returned, unless the call raised
Then(v, F(_)) == Bind(v, LAMBDA q : IF q.raised THEN q ELSE F(q))

Returns(p, type) == [p EXCEPT !.node = [type |-> type]]

Parser_peek(p) == p.tokens[p.current + 1]

\* tokens[current - 1]; with current = 0 Python's index -1 is the last token
Parser_previous(p) ==
    IF p.current = 0 THEN p.tokens[Len(p.tokens)] ELSE p.tokens[p.current]

Parser_is_at_end(p) == Parser_peek(p).type_ = "EOF"

Parser_check(p, type_) ==
    IF Parser_is_at_end(p) THEN FALSE ELSE Parser_peek(p).type_ = type_

Parser_advance(p) ==
    IF ~Parser_is_at_end(p) THEN [p EXCEPT !.current = @ + 1] ELSE p

Parser_match(p, types) ==
    IF \E type_ \in types : Parser_check(p, type_)
    THEN [Parser_advance(p) EXCEPT !.ok = TRUE]
    ELSE [p EXCEPT !.ok = FALSE]

\* hoot.error(token, message); the ParseError it returns is raised, or
\* dropped, by the caller
Parser_error(p, message) == [p EXCEPT !.reported = Append(@, message)]

\* "raise self.error(self.peek(), message)"
Parser_raise(p, message) == [Parser_error(p, message) EXCEPT !.raised = TRUE]

Parser_consume(p, type_, message) ==
    IF Parser_check(p, type_) THEN Parser_advance(p)
    ELSE Parser_raise(p, message)

\* Token defines no __eq__ and TokenType is a plain Enum: a Token object
\* never equals a member of TokenType
token_equals_type(token, type_) == FALSE

\* the loop of synchronize
RECURSIVE synchronize_loop(_)
synchronize_loop(p) ==
    IF Parser_is_at_end(p) THEN p
    ELSE IF Parser_previous(p).type_ = "SEMICOLON" THEN p
    ELSE IF \E type_ \in {"CLASS", "FUN", "LET", "FOR", "IF", "WHILE",
                          "BREAK", "PRINT", "RETURN"} :
               token_equals_type(Parser_peek(p), type_)
    THEN p
    ELSE synchronize_loop(Parser_advance(p))

Parser_synchronize(p) ==
    Bind(synchronize_loop(Parser_advance(p)), LAMBDA q :
        [q EXCEPT !.resumed = Append(@, [from |-> p.current,
                                         to |-> q.current])])

RECURSIVE Parser_expression(_), Parser_declaration(_), Parser_statement(_),
          Parser_function(_, _), Parser_assignment(_), Parser_unary(_),
          Parser_block(_)

\* "while self.match([COMMA]): ... parameters.append(self.consume(...))"
RECURSIVE parameters_loop(_, _)
parameters_loop(p, n) ==
    Bind(Parser_match(p, {"COMMA"}), LAMBDA q :
        IF ~q.ok THEN q
        ELSE Then(Parser_consume(
                      IF n >= 255
                      THEN Parser_error(q,
                               "Can't have more than 255 parameters.")
                      ELSE q,
                      "IDENTIFIER", "Expect parameter name."),
                  LAMBDA r : parameters_loop(r, n + 1)))

Parser_function(p, kind) ==
    Then(Parser_consume(p, "IDENTIFIER", "Expect '" \o kind \o "' name."),
     LAMBDA p1 :
    Then(Parser_consume(p1, "LEFT_PAREN",
                        "Expect '(' after " \o kind \o " name."),
     LAMBDA p2 :
    Then(IF ~Parser_check(p2, "RIGHT_PAREN")
         THEN Then(Parser_consume(p2, "IDENTIFIER",
                                  "Expect parameter name."),
                   LAMBDA q : parameters_loop(q, 1))
         ELSE p2,
     LAMBDA p3 :
    Then(Parser_consume(p3, "RIGHT_PAREN", "Expect ')' after parameters."),
     LAMBDA p4 :
    Then(Parser_consume(p4, "LEFT_BRACE",
                        "Expect '}' before " \o kind \o " body."),
     LAMBDA p5 :
    Then(Parser_block(p5), LAMBDA p6 : Returns(p6, "Function")))))))

\* "while not self.check(RIGHT_BRACE) and not self.is_at_end():
\*      methods.append(self.function("method"))"
RECURSIVE methods_loop(_)
methods_loop(p) ==
    IF ~Parser_check(p, "RIGHT_BRACE") /\ ~Parser_is_at_end(p)
    THEN Then(Parser_function(p, "method"), LAMBDA q : methods_loop(q))
    ELSE p

Parser_class_declaration(p) ==
    Then(Parser_consume(p, "IDENTIFIER", "Expect class name."),
     LAMBDA p1 :
    Then(Bind(Parser_match(p1, {"LESS"}), LAMBDA q :
            IF q.ok
            THEN Parser_consume(q, "IDENTIFIER", "Expect superclass name")
            ELSE q),
     LAMBDA p2 :
    Then(Parser_consume(p2, "LEFT_BRACE", "Expect '{' before class body."),
     LAMBDA p3 :
    Then(methods_loop(p3),
     LAMBDA p4 :
    Then(Parser_consume(p4, "RIGHT_BRACE", "Expect '}' after class body."),
     LAMBDA p5 : Returns(p5, "Class"))))))

Parser_expression_statement(p) ==
    Then(Parser_expression(p), LAMBDA p1 :
    Then(Parser_consume(p1, "SEMICOLON", "Expect ';' after expression."),
     LAMBDA p2 : Returns(p2, "Expression")))

Parser_var_declaration(p) ==
    Then(Parser_consume(p, "IDENTIFIER", "Expect variable name."),
     LAMBDA p1 :
    Then(Bind(Parser_match(p1, {"EQUAL"}), LAMBDA q :
            IF q.ok THEN Parser_expression(q) ELSE q),
     LAMBDA p2 :
    Then(Parser_consume(p2, "SEMICOLON",
                        "Expect ';' after variable declaration."),
     LAMBDA p3 : Returns(p3, "Let"))))

\* the node is the While, or the Block that holds the initializer and the
\* While
Parser_for_statement(p) ==
    Then(Parser_consume(p, "LEFT_PAREN", "Expect '(' after 'for'."),
     LAMBDA p1 :
    Then(Bind(Parser_match(p1, {"SEMICOLON"}), LAMBDA q :
            IF q.ok THEN Returns(q, "None")
            ELSE Bind(Parser_match(q, {"LET"}), LAMBDA r :
                    IF r.ok THEN Parser_var_declaration(r)
                    ELSE Parser_expression_statement(r))),
     LAMBDA p2 :
    Then(IF ~Parser_check(p2, "SEMICOLON") THEN Parser_expression(p2)
         ELSE p2,
     LAMBDA p3 :
    Then(Parser_consume(p3, "SEMICOLON", "Expect ';' after loop condition."),
     LAMBDA p4 :
    Then(IF ~Parser_check(p4, "RIGHT_PAREN") THEN Parser_expression(p4)
         ELSE p4,
     LAMBDA p5 :
    Then(Parser_consume(p5, "RIGHT_PAREN", "Expect ')' after for clauses."),
     LAMBDA p6 :
    Then(Parser_statement(p6),
     LAMBDA p7 :
        Returns(p7, IF p2.node # None THEN "Block" ELSE "While"))))))))

Parser_if_statement(p) ==
    Then(Parser_consume(p, "LEFT_PAREN", "Expect '(' after 'if'."),
     LAMBDA p1 :
    Then(Parser_expression(p1),
     LAMBDA p2 :
    Then(Parser_consume(p2, "RIGHT_PAREN", "Expect ')' after if condition."),
     LAMBDA p3 :
    Then(Parser_statement(p3),
     LAMBDA p4 :
    Then(Bind(Parser_match(p4, {"ELSE"}), LAMBDA q :
            IF q.ok THEN Parser_statement(q) ELSE q),
     LAMBDA p5 : Returns(p5, "If"))))))

Parser_print_statement(p) ==
    Then(Parser_expression(p), LAMBDA p1 :
    Then(Parser_consume(p1, "SEMICOLON", "Expect ';' after value."),
     LAMBDA p2 : Returns(p2, "Print")))

Parser_return_statement(p) ==
    Then(IF ~Parser_check(p, "SEMICOLON") THEN Parser_expression(p) ELSE p,
     LAMBDA p1 :
    Then(Parser_consume(p1, "SEMICOLON", "Expect ';' after return value."),
     LAMBDA p2 : Returns(p2, "Return")))

Parser_while_statement(p) ==
    Then(Parser_consume(p, "LEFT_PAREN", "Expect '(' after 'while'."),
     LAMBDA p1 :
    Then(Parser_expression(p1),
     LAMBDA p2 :
    Then(Parser_consume(p2, "RIGHT_PAREN", "Expect ')' after condition."),
     LAMBDA p3 :
    Then(Parser_statement(p3),
     LAMBDA p4 : Returns(p4, "While")))))

Parser_break_statement(p) ==
    Then(Parser_consume(p, "SEMICOLON",
                        "Expect ';' after 'break' statement."),
     LAMBDA p1 : Returns(p1, "Break"))

\* "while not self.check(RIGHT_BRACE) and not self.is_at_end():
\*      statements.append(self.declaration())"
RECURSIVE block_loop(_)
block_loop(p) ==
    IF ~Parser_check(p, "RIGHT_BRACE") /\ ~Parser_is_at_end(p)
    THEN Then(Parser_declaration(p), LAMBDA q : block_loop(q))
    ELSE p

Parser_block(p) ==
    Then(block_loop(p), LAMBDA p1 :
        Parser_consume(p1, "RIGHT_BRACE", "Expect '}' after block."))

Parser_statement(p) ==
    CASE Parser_check(p, "FOR") -> Parser_for_statement(Parser_advance(p))
      [] Parser_check(p, "IF") -> Parser_if_statement(Parser_advance(p))
      [] Parser_check(p, "PRINT") ->
            Parser_print_statement(Parser_advance(p))
      [] Parser_check(p, "RETURN") ->
            Parser_return_statement(Parser_advance(p))
      [] Parser_check(p, "WHILE") ->
            Parser_while_statement(Parser_advance(p))
      [] Parser_check(p, "BREAK") ->
            Parser_break_statement(Parser_advance(p))
      [] Parser_check(p, "LEFT_BRACE") ->
            Then(Parser_block(Parser_advance(p)),
                 LAMBDA q : Returns(q, "Block"))
      [] OTHER -> Parser_expression_statement(p)

\* declaration parses nothing
Parser_declaration_parses_nothing(p) ==
    [p EXCEPT !.begun = Append(@, p.current), !.node = None]

\* the try block, then "except ParseError: self.synchronize()", after which
\* declaration returns None
Parser_declaration(p) ==
    Bind([p EXCEPT !.begun = Append(@, p.current)], LAMBDA p0 :
    Bind(CASE Parser_check(p0, "CLASS") ->
                Parser_class_declaration(Parser_advance(p0))
           [] Parser_check(p0, "FUN") ->
                Parser_function(Parser_advance(p0), "function")
           [] Parser_check(p0, "LET") ->
                Parser_var_declaration(Parser_advance(p0))
           [] OTHER -> Parser_statement(p0),
         LAMBDA q :
            IF q.raised
            THEN [Parser_synchronize(q) EXCEPT !.raised = FALSE,
                                               !.node = None]
            ELSE q))

\* "while True:" of call
RECURSIVE call_loop(_)

\* "while self.match([COMMA]): ... arguments.append(self.expression())"
RECURSIVE arguments_loop(_, _)
arguments_loop(p, n) ==
    Bind(Parser_match(p, {"COMMA"}), LAMBDA q :
        IF ~q.ok THEN q
        ELSE Then(Parser_expression(
                      IF n >= 255
                      THEN Parser_error(q,
                               "Can't have more than 255 arguments.")
                      ELSE q),
                  LAMBDA r : arguments_loop(r, n + 1)))

Parser_finish_call(p) ==
    Then(IF ~Parser_check(p, "RIGHT_PAREN")
         THEN Then(Parser_expression(p), LAMBDA q : arguments_loop(q, 1))
         ELSE p,
     LAMBDA p1 :
    Then(Parser_consume(p1, "RIGHT_PAREN", "Expect ')' after arguments."),
     LAMBDA p2 : Returns(p2, "Call")))

Parser_primary(p) ==
    CASE Parser_check(p, "FALSE") -> Returns(Parser_advance(p), "Literal")
      [] Parser_check(p, "TRUE") -> Returns(Parser_advance(p), "Literal")
      [] Parser_check(p, "NIL") -> Returns(Parser_advance(p), "Literal")
      [] Parser_check(p, "NUMBER") \/ Parser_check(p, "STRING") ->
            Returns(Parser_advance(p), "Literal")
      [] Parser_check(p, "SUPER") ->
            Then(Parser_consume(Parser_advance(p), "DOT",
                                "Expect '.' after 'super'."),
             LAMBDA p1 :
            Then(Parser_consume(p1, "IDENTIFIER",
                                "Expect superclass method name."),
             LAMBDA p2 : Returns(p2, "Super")))
      [] Parser_check(p, "THIS") -> Returns(Parser_advance(p), "This")
      [] Parser_check(p, "IDENTIFIER") ->
            Returns(Parser_advance(p), "Letiable")
      [] Parser_check(p, "LEFT_PAREN") ->
            Then(Parser_expression(Parser_advance(p)),
             LAMBDA p1 :
            Then(Parser_consume(p1, "RIGHT_PAREN",
                                "Expect ')' after expression."),
             LAMBDA p2 : Returns(p2, "Grouping")))
      [] OTHER -> Parser_raise(p, "Expect expression.")

call_loop(p) ==
    CASE Parser_check(p, "LEFT_PAREN") ->
            Then(Parser_finish_call(Parser_advance(p)),
                 LAMBDA q : call_loop(q))
      [] Parser_check(p, "DOT") ->
            Then(Parser_consume(Parser_advance(p), "IDENTIFIER",
                                "Expect property name after '.'."),
                 LAMBDA q : call_loop(Returns(q, "Get")))
      [] OTHER -> p

Parser_call(p) == Then(Parser_primary(p), LAMBDA q : call_loop(q))

Parser_unary(p) ==
    Bind(Parser_match(p, {"BANG", "MINUS"}), LAMBDA q :
        IF q.ok
        THEN Then(Parser_unary(q), LAMBDA r : Returns(r, "Unary"))
        ELSE Parser_call(q))

RECURSIVE factor_loop(_)
factor_loop(p) ==
    Bind(Parser_match(p, {"SLASH", "STAR"}), LAMBDA q :
        IF q.ok
        THEN Then(Parser_unary(q),
                  LAMBDA r : factor_loop(Returns(r, "Binary")))
        ELSE q)

Parser_factor(p) == Then(Parser_unary(p), LAMBDA q : factor_loop(q))

RECURSIVE term_loop(_)
term_loop(p) ==
    Bind(Parser_match(p, {"MINUS", "PLUS"}), LAMBDA q :
        IF q.ok
        THEN Then(Parser_factor(q),
                  LAMBDA r : term_loop(Returns(r, "Binary")))
        ELSE q)

Parser_term(p) == Then(Parser_factor(p), LAMBDA q : term_loop(q))

RECURSIVE comparison_loop(_)
comparison_loop(p) ==
    Bind(Parser_match(p, {"GREATER", "GREATER_EQUAL", "LESS", "LESS_EQUAL"}),
         LAMBDA q :
        IF q.ok
        THEN Then(Parser_term(q),
                  LAMBDA r : comparison_loop(Returns(r, "Binary")))
        ELSE q)

Parser_comparison(p) == Then(Parser_term(p), LAMBDA q : comparison_loop(q))

RECURSIVE equality_loop(_)
equality_loop(p) ==
    Bind(Parser_match(p, {"BANG_EQUAL", "EQUAL_EQUAL"}), LAMBDA q :
        IF q.ok
        THEN Then(Parser_comparison(q),
                  LAMBDA r : equality_loop(Returns(r, "Binary")))
        ELSE q)

Parser_equality(p) ==
    Then(Parser_comparison(p), LAMBDA q : equality_loop(q))

RECURSIVE and_loop(_)
and_loop(p) ==
    Bind(Parser_match(p, {"AND"}), LAMBDA q :
        IF q.ok
        THEN Then(Parser_equality(q),
                  LAMBDA r : and_loop(Returns(r, "Logical")))
        ELSE q)

Parser_and_(p) == Then(Parser_equality(p), LAMBDA q : and_loop(q))

RECURSIVE or_loop(_)
or_loop(p) ==
    Bind(Parser_match(p, {"OR"}), LAMBDA q :
        IF q.ok
        THEN Then(Parser_and_(q),
                  LAMBDA r : or_loop(Returns(r, "Logical")))
        ELSE q)

Parser_or_(p) == Then(Parser_and_(p), LAMBDA q : or_loop(q))

\* an assignment to anything but a variable or a property is reported, not
\* raised, and the target is returned
Parser_assignment(p) ==
    Then(Parser_or_(p), LAMBDA p1 :
        Bind(Parser_match(p1, {"EQUAL"}), LAMBDA q :
            IF ~q.ok THEN q
            ELSE Then(Parser_assignment(q), LAMBDA r :
                    CASE p1.node.type = "Letiable" -> Returns(r, "Assign")
                      [] p1.node.type = "Get" -> Returns(r, "Set")
                      [] OTHER ->
                           [Parser_error(r, "Invalid assignment target.")
                               EXCEPT !.node = p1.node])))

Parser_expression(p) == Parser_assignment(p)

\* the body of the loop of parse: "statements.append(self.declaration())"
Parser_parse_body(p) ==
    Bind(Parser_declaration(p), LAMBDA q :
        [q EXCEPT !.statements = Append(@, q.node)])


(***************************************************************************)
(* The state of the process.                                               *)
(***************************************************************************)
VARIABLES
    parser,             \* the Parser that Hoot.run makes for the tokens
    scanner,            \* the Scanner that Hoot.run makes for the text
    argc,               \* len(sys.argv)
    source,             \* the text of the script: whether it scans and
                        \* parses without an error, and its statements
    pc,                 \* where the driver thread is
    had_error,          \* Hoot.had_error
    had_runtime_error,  \* Hoot.had_runtime_error
    exit_code,          \* the exit status of the process (-1: running)
    statements,         \* the list Parser.parse returned
    current,            \* the statement Interpreter.interpret.main is at
    locals,             \* Interpreter.locals, the depth table
    environment,        \* Interpreter.environment
    frames,             \* the Environment objects
    functions,          \* the HootFunction objects
    classes,            \* the HootClass objects
    instances,          \* the HootInstance objects
    output,             \* what print statements wrote
    tasks,              \* the tasks of the event loop
    gathered,           \* the tasks run_main's asyncio.gather is awaiting
    written,            \* copies of the data written to the file
    errors,             \* the messages Hoot.report printed
    runtime_errors,     \* the messages Hoot.runtime_error printed
    resolved,           \* Resolver.resolve_stmts was called
    resolve_errors,     \* the messages the resolver reported
    executed,           \* top-level statements whose execution began
    unwound,            \* a break signal left the body of a called function
    fell_back,          \* get_at or assign_at found no binding at the distance
    raised              \* the exception that left Interpreter.interpret

vars == <<parser, scanner, argc, source, pc, had_error, had_runtime_error, exit_code,
          statements, current, locals, environment, frames, functions,
          classes, instances, output, tasks, gathered, written, errors,
          runtime_errors, resolved, resolve_errors, executed, unwound,
          fell_back,
          raised>>

RECURSIVE SeqsUpTo(_, _)
SeqsUpTo(S, n) ==
    IF n = 0 THEN {<<>>}
    ELSE LET shorter == SeqsUpTo(S, n - 1)
         IN shorter \cup {Append(q, x) : q \in shorter, x \in S}

Sources ==
    {[lex_ok |-> l, parse_ok |-> p, body |-> b] :
        l \in BOOLEAN, p \in BOOLEAN, b \in SeqsUpTo(PoolNames, MaxStmts)}

\* the sources that hold a program about the language
LangSources ==
    {[lex_ok |-> l, parse_ok |-> p, body |-> b] :
        l \in BOOLEAN, p \in BOOLEAN, b \in LangBodies}

\* Hoot.__init__ and Interpreter.__init__
Constructed ==
    /\ pc = "start"
    /\ had_error = FALSE
    /\ had_runtime_error = FALSE
    /\ exit_code = -1
    /\ statements = <<>>
    /\ current = 0
    /\ locals = EmptyMap
    /\ environment = globals
    /\ frames = <<[values |-> [n \in NativeNames |-> Val(n, 0)],
                   enclosing |-> 0]>>
    /\ functions = <<>>
    /\ classes = <<>>
    /\ instances = <<>>
    /\ output = <<>>
    /\ tasks = <<>>
    /\ gathered = {}
    /\ written = 0
    /\ errors = {}
    /\ runtime_errors = {}
    /\ resolved = FALSE
    /\ resolve_errors = {}
    /\ executed = 0
    /\ unwound = FALSE
    /\ fell_back = FALSE
    /\ raised = ""

Init ==
    /\ parser = ParserInit(<<"EOF">>)
    /\ scanner = ScannerInit(<<>>)
    /\ argc \in 1..3
    /\ source \in Sources
    /\ argc # 2 => source = [lex_ok |-> TRUE, parse_ok |-> TRUE, body |-> <<>>]
    /\ Constructed

interp_vars == <<locals, environment, frames, functions, classes, instances,
                 output, tasks, written, unwound, fell_back>>

\* the interpreter as a statement or a callback finds it
State(who, open_ok) ==
    [environment |-> environment, frames |-> frames,
     functions |-> functions, classes |-> classes, instances |-> instances,
     locals |-> locals, output |-> output, tasks |-> tasks,
     written |-> written, sig |-> "none", val |-> Nil, msg |-> "",
     who |-> who, open_ok |-> open_ok, unwound |-> unwound,
     fell_back |-> fell_back]

\* ... and as it leaves it
Commit(s, ts) ==
    /\ environment' = s.environment
    /\ frames' = s.frames
    /\ functions' = s.functions
    /\ classes' = s.classes
    /\ instances' = s.instances
    /\ output' = s.output
    /\ tasks' = ts
    /\ written' = s.written
    /\ unwound' = s.unwound
    /\ fell_back' = s.fell_back

(***************************************************************************)
(* Hoot.main, Hoot.run_file, Hoot.run                                      *)
(***************************************************************************)
Main ==
    /\ pc = "start"
    /\ IF argc > 2 THEN pc' = "exited" /\ exit_code' = 64
       ELSE IF argc = 2 THEN pc' = "scan" /\ UNCHANGED exit_code
       ELSE pc' = "prompt" /\ UNCHANGED exit_code
    /\ UNCHANGED <<parser, scanner, argc, source, had_error, had_runtime_error, statements,
                   current, interp_vars, gathered, errors, runtime_errors,
                   resolved, resolve_errors, executed, raised>>

\* scanner.scan_tokens()
ScanTokens ==
    /\ pc = "scan"
    /\ had_error' = (had_error \/ ~source.lex_ok)
    /\ errors' = IF source.lex_ok THEN errors
                 ELSE errors \cup {"Unexpected character."}
    /\ pc' = "parse"
    /\ UNCHANGED <<parser, scanner, argc, source, had_runtime_error, exit_code, statements,
                   current, interp_vars, gathered, runtime_errors, resolved, resolve_errors,
                   executed, raised>>

\* statements = parser.parse()
Parse ==
    /\ pc = "parse"
    /\ had_error' = (had_error \/ ~source.parse_ok)
    /\ errors' = IF source.parse_ok THEN errors
                 ELSE errors \cup {"Expect expression."}
    /\ statements' = ProgramOf(source.body)
    /\ pc' = "parsed"
    /\ UNCHANGED <<parser, scanner, argc, source, had_runtime_error, exit_code, current,
                   interp_vars, gathered, runtime_errors, resolved, resolve_errors, executed,
                   raised>>

\* the pipeline goes on whatever was reported
stop_for_errors_never(flag) == FALSE

\* "if (self.had_error): return", after the parser and after the resolver
stop_for_errors(flag) == flag

StopForParserErrors ==
    /\ pc = "parsed"
    /\ stop_for_errors(had_error)
    /\ pc' = "run_done"
    /\ UNCHANGED <<parser, scanner, argc, source, had_error, had_runtime_error, exit_code,
                   statements, current, interp_vars, gathered, errors,
                   runtime_errors, resolved, resolve_errors, executed, raised>>

\* resolver = Resolver(self); resolver.resolve_stmts(statements)
Resolve ==
    /\ pc = "parsed"
    /\ ~stop_for_errors(had_error)
    /\ LET r == resolve_stmts(ResolverInit(had_error, locals), statements, 1)
       IN /\ had_error' = r.had_error
          /\ errors' = errors \cup r.errors
          /\ locals' = r.locals
          /\ resolve_errors' = r.errors
    /\ resolved' = TRUE
    /\ pc' = "resolved"
    /\ UNCHANGED <<parser, scanner, argc, source, had_runtime_error, exit_code, statements,
                   current, environment, frames, functions, classes,
                   instances, output, tasks, written, unwound, fell_back,
                   gathered,
                   runtime_errors, executed, raised>>

StopForResolutionErrors ==
    /\ pc = "resolved"
    /\ stop_for_errors(had_error)
    /\ pc' = "run_done"
    /\ UNCHANGED <<parser, scanner, argc, source, had_error, had_runtime_error, exit_code,
                   statements, current, interp_vars, gathered, errors,
                   runtime_errors, resolved, resolve_errors, executed, raised>>

\* self.interpreter.interpret(statements): the event loop starts run_main,
\* which awaits main()
Interpret ==
    /\ pc = "resolved"
    /\ ~stop_for_errors(had_error)
    /\ pc' = "main"
    /\ current' = 1
    /\ UNCHANGED <<parser, scanner, argc, source, had_error, had_runtime_error, exit_code,
                   statements, interp_vars, gathered, errors, runtime_errors,
                   resolved, resolve_errors, executed, raised>>

\* Hoot.run_file after self.run returned
RunFileReturns ==
    /\ pc = "run_done"
    /\ exit_code' = IF had_error THEN 65
                    ELSE IF had_runtime_error THEN 70
                    ELSE 0
    /\ pc' = "exited"
    /\ UNCHANGED <<parser, scanner, argc, source, had_error, had_runtime_error, statements,
                   current, interp_vars, gathered, errors, runtime_errors,
                   resolved, resolve_errors, executed, raised>>

\* an exception left interpret, run, run_file and main: the process ends
\* with a traceback and status 1
Crash ==
    /\ pc = "raised"
    /\ exit_code' = 1
    /\ pc' = "crashed"
    /\ UNCHANGED <<parser, scanner, argc, source, had_error, had_runtime_error, statements,
                   current, interp_vars, gathered, errors, runtime_errors,
                   resolved, resolve_errors, executed, raised>>

(***************************************************************************)
(* Interpreter.interpret: main() runs the statements without awaiting, so  *)
(* the tasks they create first run when run_main awaits asyncio.gather.    *)
(***************************************************************************)

\* main() yields to the loop between two statements
loop_runs_tasks_in_main(at) == at \in {"main", "gather"}

\* the loop runs a task whenever the driver task exists, suspended or not
loop_runs_tasks_beside_driver(at) == at \in {"main", "drain", "gather"}

\* the loop runs a task only while the driver coroutine is suspended
loop_runs_tasks(at) == at = "gather"

\* only the tasks that have started count as pending
get_pending_tasks_started(ts) ==
    {t \in 1..Len(ts) : ts[t].state \in {"sleeping", "submitted", "ready"}}

\* get_pending_tasks: the tasks that are not done (a task that ended with
\* an exception is done)
get_pending_tasks(ts) ==
    {t \in 1..Len(ts) : ts[t].state \notin {"done", "failed"}}

\* "except RuntimeError" catches error.RuntimeError and its subclass
\* BreakJump
is_hoot_runtime_error(sig) == sig \in {"rterr", "break"}

\* one iteration of "for statement in statements: self.execute(statement)"
\* with the except clause of main
ExecuteStatement ==
    /\ pc = "main"
    /\ current <= Len(statements)
    /\ \E open_ok \in BOOLEAN :
         LET s == execute(State("main", open_ok), statements[current])
         IN /\ s.sig # "cutoff"
            /\ Commit(s, s.tasks)
            /\ IF ~Failed(s)
               THEN /\ current' = current + 1
                    /\ pc' = "main"
                    /\ UNCHANGED <<had_runtime_error, runtime_errors, raised>>
               ELSE IF is_hoot_runtime_error(s.sig)
               THEN /\ had_runtime_error' = TRUE
                    /\ runtime_errors' = runtime_errors \cup {s.msg}
                    /\ pc' = "drain"
                    /\ UNCHANGED <<current, raised>>
               ELSE /\ raised' = IF s.sig = "return" THEN "ReturnBubble"
                                 ELSE s.msg
                    /\ pc' = "raised"
                    /\ UNCHANGED <<current, had_runtime_error,
                                   runtime_errors>>
    /\ executed' = executed + 1
    /\ UNCHANGED <<parser, scanner, argc, source, had_error, exit_code, statements, locals,
                   gathered, errors, resolved, resolve_errors>>

\* the for loop of main ends
MainReturns ==
    /\ pc = "main"
    /\ current > Len(statements)
    /\ pc' = "drain"
    /\ UNCHANGED <<parser, scanner, argc, source, had_error, had_runtime_error, exit_code,
                   statements, current, interp_vars, gathered, errors,
                   runtime_errors, resolved, resolve_errors, executed, raised>>

\* run_main: "while True: pending_tasks = get_pending_tasks() ..."; with
\* nothing pending interpret returns, and so does Hoot.run
RunMainLoop ==
    /\ pc = "drain"
    /\ LET pending_tasks == get_pending_tasks(tasks)
       IN IF pending_tasks = {}
          THEN pc' = "run_done" /\ gathered' = {}
          ELSE pc' = "gather" /\ gathered' = pending_tasks
    /\ UNCHANGED <<parser, scanner, argc, source, had_error, had_runtime_error, exit_code,
                   statements, current, interp_vars, errors, runtime_errors,
                   resolved, resolve_errors, executed, raised>>

\* every gathered task finished without an exception
GatherReturns ==
    /\ pc = "gather"
    /\ \A t \in gathered : tasks[t].state = "done"
    /\ pc' = "drain"
    /\ gathered' = {}
    /\ UNCHANGED <<parser, scanner, argc, source, had_error, had_runtime_error, exit_code,
                   statements, current, interp_vars, errors, runtime_errors,
                   resolved, resolve_errors, executed, raised>>

\* a gathered task ended with an exception: gather raises it into run_main,
\* and loop.run_until_complete raises it out of interpret
GatherRaises ==
    /\ pc = "gather"
    /\ \E t \in gathered :
         /\ tasks[t].state = "failed"
         /\ raised' = tasks[t].error
    /\ pc' = "raised"
    /\ UNCHANGED <<parser, scanner, argc, source, had_error, had_runtime_error, exit_code,
                   statements, current, interp_vars, gathered, errors,
                   runtime_errors, resolved, resolve_errors, executed>>

(***************************************************************************)
(* The tasks (native.py).  A task is "created" by asyncio.create_task; its *)
(* first step takes it to "sleeping" (delay: asyncio.sleep) or "submitted" *)
(* (read, write, request: loop.run_in_executor); the worker thread makes a *)
(* submitted task "ready"; the second step of the task calls the callback  *)
(* and leaves the task "done", or "failed" when an exception escaped it.   *)
(***************************************************************************)

\* the first step of the oldest task that has not started (the ready queue
\* of the loop is first-in first-out); the loop still runs the steps that
\* are queued when run_main has raised
TaskStart(t) ==
    /\ loop_runs_tasks(pc) \/ pc = "raised"
    /\ t \in 1..Len(tasks)
    /\ tasks[t].state = "created"
    /\ \A u \in 1..(t - 1) : tasks[u].state # "created"
    /\ tasks' = [tasks EXCEPT ![t].state =
                    IF tasks[t].kind = "delay" THEN "sleeping"
                    ELSE "submitted"]
    /\ UNCHANGED <<parser, scanner, argc, source, pc, had_error, had_runtime_error, exit_code,
                   statements, current, locals, environment, frames,
                   functions, classes, instances, output, gathered, written,
                   errors, runtime_errors, resolved, resolve_errors, executed,
                   unwound, fell_back,
                   raised>>

\* blocking_read, blocking_write and return_response on a worker thread:
\* on an exception they call interpreter.hoot.error and return None / False
WorkerRun(t) ==
    /\ t \in 1..Len(tasks)
    /\ tasks[t].state = "submitted"
    /\ \E ok \in BOOLEAN :
         /\ tasks' = [tasks EXCEPT ![t].state = "ready", ![t].data = ok]
         /\ had_error' = (had_error \/ ~ok)
         /\ errors' = IF ok THEN errors
                      ELSE errors \cup {"Error in " \o tasks[t].kind}
         /\ written' = IF ok /\ tasks[t].kind = "write"
                       THEN written + 1 ELSE written
    /\ UNCHANGED <<parser, scanner, argc, source, pc, had_runtime_error, exit_code,
                   statements, current, locals, environment, frames,
                   functions, classes, instances, output, gathered,
                   runtime_errors, resolved, resolve_errors, executed, unwound,
                   fell_back, raised>>

\* Python's truth value of a Hoot value ("if arguments[3]:")
py_truthy(value) ==
    CASE value.t = "nil" -> FALSE
      [] value.t = "bool" -> value.v = 1
      [] value.t = "num" -> value.v # 0
      [] OTHER -> TRUE

\* whether the second step of the task calls the callback
calls_callback(task) ==
    CASE task.kind = "delay" -> TRUE
      [] task.kind = "read" -> TRUE
      [] task.kind = "write" -> py_truthy(task.callback)
      [] task.kind = "request" -> task.data

\* the arguments the callback is called with
callback_arguments(task) ==
    CASE task.kind = "delay" -> <<>>
      [] task.kind = "read" ->
            <<Val("strinst", IF task.data THEN 1 ELSE 0)>>
      [] task.kind = "write" -> <<>>
      [] task.kind = "request" -> <<Val("response", 0)>>

\* only Delay.call.sleeper has a try/except around the call of the callback
catches_exception(task) == task.kind = "delay"

\* the second step of a task, on the driver thread
TaskResume(t) ==
    /\ loop_runs_tasks(pc)
    /\ t \in 1..Len(tasks)
    /\ tasks[t].state \in {"sleeping", "ready"}
    /\ \E open_ok \in BOOLEAN :
         LET task == tasks[t]
             s == IF calls_callback(task)
                  THEN call(State("task", open_ok), task.callback,
                            callback_arguments(task))
                  ELSE State("task", open_ok)
             caught == Failed(s) /\ catches_exception(task)
             escaped == Failed(s) /\ ~catches_exception(task)
         IN /\ s.sig # "cutoff"
            /\ Commit(s, [s.tasks EXCEPT
                  ![t].state = IF escaped THEN "failed" ELSE "done",
                  ![t].called = calls_callback(task),
                  ![t].sig = s.sig,
                  ![t].error = IF ~escaped THEN ""
                               ELSE IF s.sig = "return" THEN "ReturnBubble"
                               ELSE s.msg])
            /\ had_error' = (had_error \/ caught)
            /\ errors' = IF caught
                         THEN errors \cup {"Error in delay callback"}
                         ELSE errors
    /\ UNCHANGED <<parser, scanner, argc, source, pc, had_runtime_error, exit_code,
                   statements, current, locals, gathered, runtime_errors,
                   resolved, resolve_errors, executed, raised>>

Next ==
    \/ Main
    \/ ScanTokens
    \/ Parse
    \/ StopForParserErrors
    \/ Resolve
    \/ StopForResolutionErrors
    \/ Interpret
    \/ ExecuteStatement
    \/ MainReturns
    \/ RunMainLoop
    \/ GatherReturns
    \/ GatherRaises
    \/ \E t \in 1..Len(tasks) : TaskStart(t)
    \/ \E t \in 1..Len(tasks) : WorkerRun(t)
    \/ \E t \in 1..Len(tasks) : TaskResume(t)
    \/ RunFileReturns
    \/ Crash

Spec == Init /\ [][Next]_vars

(***************************************************************************)
(* The interpreter run on a file that holds one program about the          *)
(* language.  None of these programs starts a task, so the steps of the    *)
(* event loop's tasks are left out.                                        *)
(***************************************************************************)
InitLang ==
    /\ parser = ParserInit(<<"EOF">>)
    /\ scanner = ScannerInit(<<>>)
    /\ argc = 2
    /\ source \in LangSources
    /\ Constructed

NextLang ==
    \/ Main
    \/ ScanTokens
    \/ Parse
    \/ StopForParserErrors
    \/ Resolve
    \/ StopForResolutionErrors
    \/ Interpret
    \/ ExecuteStatement
    \/ MainReturns
    \/ RunMainLoop
    \/ RunFileReturns

SpecLang == InitLang /\ [][NextLang]_vars

(***************************************************************************)
(* The scanner run on a text, one call of scan_token a step.  The steps    *)
(* ScanToken and ScanEnd are scanner.scan_tokens() in full, in place of    *)
(* the step ScanTokens.                                                    *)
(***************************************************************************)
Alphabet == {"o", "r", "_", "1", " ", "@", "="}

SourceTexts == SeqsUpTo(Alphabet, MaxSrcLen)

InitScan ==
    /\ parser = ParserInit(<<"EOF">>)
    /\ scanner \in {ScannerInit(text) : text \in SourceTexts}
    /\ argc = 2
    /\ source = [lex_ok |-> TRUE, parse_ok |-> TRUE, body |-> <<>>]
    /\ Constructed

\* the body of the while loop of Scanner.scan_tokens
ScanToken ==
    /\ pc = "scan"
    /\ ~is_at_end(scanner)
    /\ scanner' = scan_token([scanner EXCEPT !.start = scanner.current])
    /\ had_error' = (had_error \/ scanner'.reported # scanner.reported)
    /\ errors' = errors \cup {scanner'.reported[k] :
                                k \in 1..Len(scanner'.reported)}
    /\ UNCHANGED <<parser, argc, source, pc, had_runtime_error, exit_code,
                   statements, current, interp_vars, gathered,
                   runtime_errors, resolved, resolve_errors, executed,
                   raised>>

\* the end of Scanner.scan_tokens: the EOF token
ScanEnd ==
    /\ pc = "scan"
    /\ is_at_end(scanner)
    /\ scanner' = [scanner EXCEPT !.tokens =
                      Append(@, [type_ |-> "EOF", lexeme |-> "",
                                 line |-> scanner.line])]
    /\ pc' = "parse"
    /\ UNCHANGED <<parser, argc, source, had_error, had_runtime_error, exit_code,
                   statements, current, interp_vars, gathered, errors,
                   runtime_errors, resolved, resolve_errors, executed,
                   raised>>

NextScan ==
    \/ Main
    \/ ScanToken
    \/ ScanEnd

SpecScan == InitScan /\ [][NextScan]_vars

(***************************************************************************)
(* The parser on every list of at most MaxTokens tokens of these types,    *)
(* followed by EOF.                                                        *)
(***************************************************************************)
TokenTypes == {"LET", "IDENTIFIER", "EQUAL", "SEMICOLON", "PRINT",
               "LEFT_BRACE", "RIGHT_BRACE"}

TokenLists == {Append(ts, "EOF") : ts \in SeqsUpTo(TokenTypes, MaxTokens)}

InitParse ==
    /\ parser \in {ParserInit(ts) : ts \in TokenLists}
    /\ scanner = ScannerInit(<<>>)
    /\ argc = 2
    /\ source = [lex_ok |-> TRUE, parse_ok |-> TRUE, body |-> <<>>]
    /\ Constructed

\* one turn of "while not self.is_at_end():" in Parser.parse
ParseDeclaration ==
    /\ pc = "parse"
    /\ ~Parser_is_at_end(parser)
    /\ parser' = Parser_parse_body(parser)
    /\ had_error' = (had_error \/ parser'.reported # parser.reported)
    /\ errors' = errors \cup {parser'.reported[k] :
                                k \in 1..Len(parser'.reported)}
    /\ UNCHANGED <<scanner, argc, source, pc, had_runtime_error, exit_code,
                   statements, current, interp_vars, gathered,
                   runtime_errors, resolved, resolve_errors, executed,
                   raised>>

\* "return statements" of Parser.parse
ParseReturns ==
    /\ pc = "parse"
    /\ Parser_is_at_end(parser)
    /\ pc' = "parsed_tokens"
    /\ UNCHANGED <<parser, scanner, argc, source, had_error,
                   had_runtime_error, exit_code, statements, current,
                   interp_vars, gathered, errors, runtime_errors, resolved,
                   resolve_errors, executed, raised>>

NextParse ==
    \/ Main
    \/ ScanTokens
    \/ ParseDeclaration
    \/ ParseReturns

SpecParse == InitParse /\ [][NextParse]_vars

(***************************************************************************)
(* Properties.                                                             *)
(***************************************************************************)
Finished == pc \in {"exited", "crashed"}

\* a return statement that is not inside a function or method body
RECURSIVE ReturnOutsideFunction(_)
ReturnOutsideFunction(node) ==
    CASE node.type = "Return" -> TRUE
      [] node.type = "Block" ->
            \E i \in 1..Len(node.statements) :
                ReturnOutsideFunction(node.statements[i])
      [] node.type = "If" ->
            \/ ReturnOutsideFunction(node.then_branch)
            \/ ReturnOutsideFunction(node.else_branch)
      [] node.type = "While" -> ReturnOutsideFunction(node.body)
      [] OTHER -> FALSE

\* the expression reads the variable name
RECURSIVE Reads(_, _)
Reads(expr, name) ==
    CASE expr.type = "Letiable" -> expr.name = name
      [] expr.type = "Assign" -> Reads(expr.value, name)
      [] expr.type = "Unary" -> Reads(expr.right, name)
      [] expr.type = "Binary" ->
            Reads(expr.left, name) \/ Reads(expr.right, name)
      [] expr.type = "Grouping" -> Reads(expr.expression, name)
      [] expr.type = "Get" -> Reads(expr.obj, name)
      [] expr.type = "Set" -> Reads(expr.obj, name) \/ Reads(expr.value, name)
      [] expr.type = "Call" ->
            \/ Reads(expr.callee, name)
            \/ \E i \in 1..Len(expr.arguments) : Reads(expr.arguments[i], name)
      [] OTHER -> FALSE

\* a let statement of a local scope whose initializer reads the variable
\* it declares
RECURSIVE ReadsOwnInitializer(_, _)
ReadsOwnInitializer(node, local) ==
    CASE node.type = "Let" ->
            /\ local
            /\ node.initializer.type # "None"
            /\ Reads(node.initializer, node.name)
      [] node.type = "Block" ->
            \E i \in 1..Len(node.statements) :
                ReadsOwnInitializer(node.statements[i], TRUE)
      [] node.type = "Function" ->
            \E i \in 1..Len(node.body) :
                ReadsOwnInitializer(node.body[i], TRUE)
      [] node.type = "If" ->
            \/ ReadsOwnInitializer(node.then_branch, local)
            \/ ReadsOwnInitializer(node.else_branch, local)
      [] node.type = "While" -> ReadsOwnInitializer(node.body, local)
      [] OTHER -> FALSE

UndefinedProperty == "Undefined property 'x'."

OwnInitializerMessage == "Can't read local variable in its own initializer."

\* the blocking function of the task has run and failed
WorkFailed(task) ==
    /\ task.kind \in {"read", "write", "request"}
    /\ task.state \in {"ready", "done", "failed"}
    /\ ~task.data

\* C1: the resolver runs only for a source that scanned and parsed without
\* an error, and a statement is executed only if moreover the resolver
\* reported nothing
C1_NoExecutionAfterError ==
    /\ resolved => (source.lex_ok /\ source.parse_ok)
    /\ executed > 0 =>
          (source.lex_ok /\ source.parse_ok /\ resolve_errors = {})

\* C1: a program the resolver rejected has left Hoot.run unexecuted
C1_Witness ==
    /\ pc = "run_done"
    /\ resolved
    /\ resolve_errors # {}
    /\ executed = 0

\* C2 (as claimed): the process ends with 64 for more than one argument;
\* run_file gives 65 after a lex, parse or resolve error, 70 when the
\* program compiled and a Hoot runtime error was raised (at top level or in
\* a callback), and 0 when nothing went wrong
C2_ExitCodes ==
    Finished =>
      /\ argc > 2 => exit_code = 64
      /\ argc = 2 =>
           /\ (~source.lex_ok \/ ~source.parse_ok \/ resolve_errors # {})
                 => exit_code = 65
           /\ (/\ executed > 0
               /\ \/ had_runtime_error
                  \/ \E t \in 1..Len(tasks) : tasks[t].sig = "rterr")
                 => exit_code = 70
           /\ (/\ executed > 0
               /\ ~had_error
               /\ ~had_runtime_error
               /\ raised = ""
               /\ \A t \in 1..Len(tasks) : tasks[t].sig = "none")
                 => exit_code = 0

\* C3: when interpret has returned, no task is pending: each task has run
\* to its end
C3_NoPendingTaskAtReturn ==
    (pc \in {"run_done", "exited"} /\ executed > 0) =>
        \A t \in 1..Len(tasks) : tasks[t].state \in {"done", "failed"}

\* C3: interpret has returned after a task that a callback created ended
C3_Witness ==
    /\ pc = "run_done"
    /\ \E t \in 1..Len(tasks) :
          tasks[t].by = "task" /\ tasks[t].state = "done" /\ tasks[t].called

\* C4: while the top-level program runs no task has taken a step, and in
\* the output nothing written by a callback precedes something written by
\* the top-level program
C4_TopLevelBeforeCallbacks ==
    /\ pc \in {"start", "scan", "parse", "parsed", "resolved", "main"} =>
          \A t \in 1..Len(tasks) :
              tasks[t].state = "created" /\ ~tasks[t].called
    /\ \A i, j \in 1..Len(output) :
          (i < j /\ output[i].who = "task") => output[j].who = "task"

\* C4: a delay of 0 ms was called before a later top-level print, and its
\* callback printed after it
C4_Witness ==
    /\ Len(tasks) > 0
    /\ tasks[1].kind = "delay"
    /\ tasks[1].called
    /\ source.body = <<"delay_cb", "print">>
    /\ \E i, j \in 1..Len(output) :
          i < j /\ output[i].who = "main" /\ output[j].who = "task"

\* C5 (as claimed): when the blocking function of a read, write or request
\* task failed, the error is reported and the callback is never called
C5_NoCallbackAfterFailure ==
    \A t \in 1..Len(tasks) :
        WorkFailed(tasks[t]) =>
            /\ ("Error in " \o tasks[t].kind) \in errors
            /\ ~tasks[t].called

\* C6 (as claimed): a Hoot runtime error raised in a callback, with nothing
\* else going wrong, sets had_runtime_error and not had_error, and run_file
\* returns 70
C6_CallbackRuntimeError ==
    (/\ \E t \in 1..Len(tasks) : tasks[t].sig = "rterr"
     /\ \A t \in 1..Len(tasks) :
           tasks[t].sig \in {"none", "rterr"} /\ ~WorkFailed(tasks[t])
     /\ raised \in {"", "Operand must be a number"})
    => /\ had_runtime_error
       /\ ~had_error
       /\ pc \notin {"raised", "crashed"}
       /\ pc = "exited" => exit_code = 70

\* C7 (as claimed): when the read of an undefined property ended a top-level
\* statement, the driver caught it: the message was printed by
\* Hoot.runtime_error, had_runtime_error is set and no exception left
\* interpret
C7_UndefinedPropertyCaught ==
    (UndefinedProperty \in runtime_errors \/ raised = UndefinedProperty)
    => /\ UndefinedProperty \in runtime_errors
       /\ had_runtime_error
       /\ raised = ""

\* C8 (as claimed): a program with a return statement outside every
\* function is reported by the resolver and never executed
C8_ReturnOutsideFunctionRejected ==
    (/\ resolved
     /\ \E i \in 1..Len(statements) : ReturnOutsideFunction(statements[i]))
    => /\ resolve_errors # {}
       /\ had_error
       /\ executed = 0

\* C9 (as claimed): a program in which a local variable is read in its own
\* initializer is reported by the resolver and never executed
C9_OwnInitializerRejected ==
    (/\ resolved
     /\ \E i \in 1..Len(statements) :
           ReadsOwnInitializer(statements[i], FALSE))
    => /\ OwnInitializerMessage \in resolve_errors
       /\ had_error
       /\ executed = 0

\* C10 (as claimed): in a program the resolver accepted no break signal
\* leaves the body of a called function or reaches the driver, and no
\* return signal reaches the driver
C10_SignalsStayInside ==
    /\ ~unwound
    /\ "Breaking." \notin runtime_errors
    /\ raised # "ReturnBubble"
    /\ \A t \in 1..Len(tasks) : tasks[t].sig \notin {"break", "return"}

\* C24: Interpreter.environment is the globals frame whenever no Hoot
\* code is running: after each top-level statement, whether it ended
\* normally or with a runtime error, a break or a return signal, after a
\* class declaration with a superclass, and after each callback of a
\* background task has returned or raised.
C24_EnvironmentRestored == environment = globals

C24_Witness ==
    /\ environment = globals
    /\ \E t \in 1..Len(tasks) : tasks[t].called /\ tasks[t].sig = "rterr"
    /\ \E c \in 1..Len(classes) : classes[c].superclass # 0
    /\ Len(frames) > 2

\* the tasks whose callback is called in a step
CalledInStep ==
    {t \in 1..Len(tasks) : ~tasks[t].called /\ tasks'[t].called}

\* the state Hoot code works on
hoot_state == <<environment, frames, functions, classes, instances, output>>

\* C25: one call stack of Hoot code at a time.  While the top-level
\* program has not returned (pc = "main") no callback is called; a step
\* calls the callback of at most one task, and it has returned or raised
\* when the step ends; the environment, the frames and the rest of the
\* state Hoot code works on change only in a step of the top-level program
\* or in the step of the one task whose callback is called.
C25_OneCallStack ==
    [][/\ Cardinality(CalledInStep) <= 1
       /\ pc = "main" => CalledInStep = {}
       /\ hoot_state' # hoot_state =>
             \/ pc = "main" /\ CalledInStep = {}
             \/ pc = "gather" /\ Cardinality(CalledInStep) = 1]_vars

C25_Witness ==
    /\ pc = "gather"
    /\ \E t, u \in 1..Len(tasks) :
          /\ tasks[t].called
          /\ tasks[t].by = "main"
          /\ tasks[u].state \in {"sleeping", "ready"}
    /\ Len(output) > 0

\* the tasks whose worker-thread function runs in a step
WorkerInStep ==
    {t \in 1..Len(tasks) :
        tasks[t].state = "submitted" /\ tasks'[t].state = "ready"}

\* C26: the code on a worker thread (blocking_read, blocking_write,
\* return_response) only returns data: a step of a worker leaves had_error,
\* had_runtime_error, the reported errors and the state Hoot code works on
\* unchanged.
C26_WorkersOnlyReturnData ==
    [][WorkerInStep # {} =>
          /\ had_error' = had_error
          /\ had_runtime_error' = had_runtime_error
          /\ errors' = errors
          /\ hoot_state' = hoot_state]_vars

\* the tasks that calls of write created
WriteCalls == {t \in 1..Len(tasks) : tasks[t].kind = "write"}

\* C30: each call of write writes its data once, from its background
\* task: the number of copies written never exceeds the number of calls,
\* it grows only in the step of a worker, and a callback of write that was
\* called finds the data of its call written.
C30_WriteOnce ==
    [][/\ written' <= Cardinality({t \in 1..Len(tasks') :
                                     tasks'[t].kind = "write"})
       /\ written' # written => WorkerInStep # {}
       /\ \A t \in WriteCalls :
             tasks'[t].called => tasks'[t].data]_vars

\* C28: when a top-level statement has raised a runtime error
\* (had_runtime_error is set by the except clause of main), no later
\* top-level statement is executed, interpret returns normally (nothing is
\* raised out of it), and at the end every task the program scheduled has
\* run to its end and has called its callback.
C28_RuntimeErrorThenDrain ==
    had_runtime_error =>
        /\ pc # "main"
        /\ executed = current
        /\ pc \notin {"raised", "crashed"}
        /\ Finished =>
              \A t \in 1..Len(tasks) :
                  tasks[t].by = "main" =>
                      /\ tasks[t].state = "done"
                      /\ calls_callback(tasks[t]) => tasks[t].called

\* the token types synchronize is to stop in front of
SynchronizeKeywords == {"CLASS", "FUN", "LET", "FOR", "IF", "WHILE", "BREAK",
                        "PRINT", "RETURN"}

\* with current = j the previous token is a semicolon or the next token
\* is one of the keywords (or EOF)
SynchronizedAt(j) ==
    \/ parser.tokens[j + 1].type_ = "EOF"
    \/ j > 0 /\ parser.tokens[j].type_ = "SEMICOLON"
    \/ parser.tokens[j + 1].type_ \in SynchronizeKeywords

\* the first value of current synchronize looks at: one token after the
\* error
AfterError(r) ==
    IF parser.tokens[r.from + 1].type_ = "EOF" THEN r.from ELSE r.from + 1

\* C27: each call of synchronize leaves current at the first place after
\* the token of the error where the previous token is a semicolon or the
\* next token is one of class, fun, let, for, if, while, break, print,
\* return; and when parse has returned, a declaration was begun at each
\* such keyword.
C27_SynchronizeStopsAtKeyword ==
    \A k \in 1..Len(parser.resumed) :
        LET r == parser.resumed[k]
        IN /\ r.to >= AfterError(r)
           /\ SynchronizedAt(r.to)
           /\ \A j \in AfterError(r)..(r.to - 1) : ~SynchronizedAt(j)
           /\ (/\ pc = "parsed_tokens"
               /\ parser.tokens[r.to + 1].type_ \in SynchronizeKeywords)
              => \E b \in 1..Len(parser.begun) : parser.begun[b] = r.to

\* C29: parse terminates.  Each turn of its loop leaves current larger
\* than it was and no larger than the index of EOF; over the whole
\* parse, nested blocks included, each call of declaration begins at a
\* larger value of current than the call before it; and each call of
\* synchronize consumes a token unless the error is at EOF.
C29_ParseProgress ==
    [][parser' # parser =>
          /\ parser'.current > parser.current
          /\ parser'.current < Len(parser'.tokens)
          /\ Len(parser'.statements) = Len(parser.statements) + 1
          /\ \A i, j \in 1..Len(parser'.begun) :
                i < j => parser'.begun[i] < parser'.begun[j]
          /\ \A k \in 1..Len(parser'.resumed) :
                \/ parser'.resumed[k].to > parser'.resumed[k].from
                \/ parser'.tokens[parser'.resumed[k].from + 1].type_
                      = "EOF"]_vars

C29_Witness ==
    /\ pc = "parsed_tokens"
    /\ Len(parser.statements) >= 2
    /\ Len(parser.begun) > Len(parser.statements)
    /\ Len(parser.resumed) > 0
    /\ \E k \in 1..Len(parser.resumed) :
          parser.resumed[k].to = parser.resumed[k].from

(***************************************************************************)
(* Properties of the language, on the programs about the language.         *)
(***************************************************************************)
\* the lines printed so far
Texts == [i \in 1..Len(output) |-> output[i].text]

\* the run of the named program has ended
Ran(name) ==
    /\ pc = "exited"
    /\ source = [lex_ok |-> TRUE, parse_ok |-> TRUE, body |-> <<name>>]

\* C11: a function sees the scope it was declared in, not the scope of its
\* caller: make(3)(4) is 7 after make has returned, a function that reads or
\* writes a global n does so when its caller has a local n of its own, and
\* the caller's n is what the caller still reads afterwards.
C11_ClosureScope ==
    /\ Ran("closure") => exit_code = 0 /\ Texts = <<"7.0">>
    /\ Ran("closure_shadow") => exit_code = 0 /\ Texts = <<"1.0">>
    /\ Ran("closure_write") => exit_code = 0 /\ Texts = <<"2.0", "5.0">>

C11_Witness == Ran("closure_shadow") /\ Len(functions) = 2 /\ Len(frames) = 3

\* C12: super.m in a method of a class starts the search for m at the
\* superclass that class was declared with, whatever class the receiver is
\* an instance of, goes on up that superclass's chain, and binds the method
\* found to the current this.
C12_SuperLexical ==
    /\ Ran("super_chain") => exit_code = 0 /\ Texts = <<"1.0">>
    /\ Ran("super_up") => exit_code = 0 /\ Texts = <<"1.0">>
    /\ Ran("super_this") => exit_code = 0 /\ Texts = <<"True">>

C12_Witness ==
    /\ Ran("super_chain")
    /\ Len(classes) = 3
    /\ Len(instances) = 1
    /\ classes[instances[1].klass].name = "C"

\* C13: calling a class gives the fresh instance also when its init, own or
\* inherited, runs a bare return or runs to its end, and calling init on an
\* instance gives that instance.
C13_InitializerReturnsInstance ==
    /\ Ran("init_return") =>
          exit_code = 0 /\ Texts = <<"A instance", "True">>
    /\ Ran("init_plain") => exit_code = 0 /\ Texts = <<"True", "1.0">>
    /\ Ran("init_inherited") => exit_code = 0 /\ Texts = <<"B instance">>

C13_Witness ==
    /\ Ran("init_return")
    /\ Len(instances) = 1
    /\ \E f \in 1..Len(functions) : functions[f].is_initializer

\* C14: for (let i = 0; i < 2; i = i + 1) print i; runs the initializer
\* once and then condition, body and increment in that order, so that it
\* prints 0 and 1; i is visible in condition, body and increment and is
\* not bound after the loop.
C14_ForLoop ==
    /\ Ran("for_loop") =>
          /\ exit_code = 0
          /\ Texts = <<"0.0", "1.0">>
          /\ "i" \notin DOMAIN frames[globals].values
    /\ Ran("for_after") =>
          /\ Texts = <<"0.0", "1.0">>
          /\ runtime_errors = {"Undefined variable 'i'."}
          /\ exit_code = 70

C14_Witness ==
    /\ Ran("for_loop")
    /\ Len(output) = 2
    /\ \E f \in 1..Len(frames) :
          "i" \in DOMAIN frames[f].values /\ frames[f].values["i"] = Num(2)

\* C15: a break in the inner of two nested while loops ends the inner loop
\* only: the rest of the outer body runs in the environment it had before
\* the inner loop (it reads its own a), and the outer loop tests its
\* condition again and goes on to its second iteration.
C15_BreakEndsInnermostLoop ==
    Ran("nested_break") =>
        /\ exit_code = 0
        /\ Texts = <<"7.0", "7.0", "2.0">>
        /\ environment = globals
        /\ ~unwound

C15_Witness ==
    /\ Ran("nested_break")
    /\ Len(output) = 3
    /\ frames[globals].values["i"] = Num(2)

\* the run of a program print l == r; print l != r; has ended
EqRan ==
    /\ pc = "exited"
    /\ source.lex_ok /\ source.parse_ok
    /\ Len(source.body) = 3
    /\ source.body[1] = "eq"

\* the printed line stands for the boolean true
SaysTrue(text) == text \in {"true", "True"}

\* C16: == makes no implicit conversion: two literals of the set nil,
\* true, false, 0, 1, "a", "b" are equal only when they are the same
\* literal, so that 1 == true and 0 == false are false, and != gives the
\* negation of ==.
C16_EqualityWithoutCoercion ==
    EqRan =>
        /\ Len(output) = 2
        /\ SaysTrue(Texts[1]) <=> source.body[2] = source.body[3]
        /\ SaysTrue(Texts[2]) <=> ~SaysTrue(Texts[1])

\* C17: print writes nil as nil, the booleans as true and false, a string
\* as it is, a function as <fn name>, a class as its name and a native
\* callable as <native fn>.
C17_PrintTable ==
    Ran("print_table") =>
        Texts = <<"nil", "true", "false", "hi", "<fn f>", "A", "<native fn>">>

\* C18: print 1 + 2; writes the digits of the sum with no fractional part,
\* that is exactly 3.
C18_IntegerPrintsWithoutFraction ==
    Ran("print_sum") => Texts = <<"3">>

\* C20: declaring a name twice at top level, with let, fun or class, is
\* accepted and the program runs, and the reference to a global in
\* let a = 1; { print a; } gets no entry in the depth table.
C20_GlobalScopeNotOnStack ==
    /\ Ran("dup_global") =>
          resolve_errors = {} /\ exit_code = 0 /\ Texts = <<"2.0">>
    /\ Ran("dup_global_fun") => resolve_errors = {} /\ exit_code = 0
    /\ Ran("global_ref") => Ref(1, "a").id \notin DOMAIN locals

(***************************************************************************)
(* Properties of the scanner.                                              *)
(***************************************************************************)
\* the characters of [A-Za-z_] and of [A-Za-z0-9_]
IdentifierStart == Letters \cup {"_"}
IdentifierPart == IdentifierStart \cup Digits

\* the characters that start a token or are skipped as white space
StartsToken ==
    IdentifierPart \cup
    {"(", ")", "{", "}", ",", ".", "-", "+", ";", "*", "!", "=", "<", ">",
     "/", " ", "\r", "\t", "\n", "\""}

\* the last position of the run of identifier characters that holds i
RECURSIVE RunEnd(_, _)
RunEnd(text, i) ==
    IF i < Len(text) /\ text[i + 1] \in IdentifierPart
    THEN RunEnd(text, i + 1) ELSE i

\* the maximal runs of the text that match [A-Za-z_][A-Za-z0-9_]*, from
\* position i on, from left to right
RECURSIVE IdentifierRuns(_, _)
IdentifierRuns(text, i) ==
    IF i > Len(text) THEN <<>>
    ELSE IF text[i] \in IdentifierStart
    THEN <<Join(SubSeq(text, i, RunEnd(text, i)))>>
         \o IdentifierRuns(text, RunEnd(text, i) + 1)
    ELSE IdentifierRuns(text, i + 1)

\* the lexemes of the IDENTIFIER and keyword tokens, in order
RECURSIVE IdentifierLexemes(_)
IdentifierLexemes(tokens) ==
    IF tokens = <<>> THEN <<>>
    ELSE (IF Head(tokens).type_ = "IDENTIFIER"
             \/ Head(tokens).type_ \in {keywords[k] : k \in DOMAIN keywords}
          THEN <<Head(tokens).lexeme>> ELSE <<>>)
         \o IdentifierLexemes(Tail(tokens))

\* Scanner.scan_tokens has returned
Scanned == pc = "parse" /\ scanner.tokens # <<>>

\* C19: when the scanner is done, the IDENTIFIER and keyword tokens are
\* the maximal runs of the text that match [A-Za-z_][A-Za-z0-9_]*, one
\* token a run, also for a run that starts with an underscore, and
\* "Unexpected character." was reported only if the text holds a character
\* that starts no token.
C19_IdentifierRuns ==
    Scanned =>
        /\ IdentifierLexemes(scanner.tokens) = IdentifierRuns(scanner.source, 1)
        /\ "Unexpected character." \in errors =>
              \E i \in 1..Len(scanner.source) :
                  scanner.source[i] \notin StartsToken

\* C21: reading a property of an instance gives the field of that name
\* when there is one, also when the class has a method of that name;
\* otherwise the method found first from the instance's class up the
\* chain of superclasses, a subclass's method before a superclass's, bound
\* to the receiver as this.
C21_PropertyLookupOrder ==
    /\ Ran("prop_field") => exit_code = 0 /\ Texts = <<"5.0">>
    /\ Ran("prop_override") => exit_code = 0 /\ Texts = <<"2.0", "4.0">>
    /\ Ran("prop_this") => exit_code = 0 /\ Texts = <<"True">>

C21_Witness ==
    /\ Ran("prop_field")
    /\ Len(instances) = 1
    /\ "m" \in DOMAIN instances[1].fields
    /\ "m" \in DOMAIN classes[instances[1].klass].methods

\* the frames hold no binding of the name
Unbound(name) ==
    \A f \in 1..Len(frames) : name \notin DOMAIN frames[f].values

\* C22: assigning to a name with no entry in the depth table and no
\* binding in the globals frame gives the runtime error Undefined variable
\* and creates no binding, at top level and in a function; an assignment
\* that succeeds has the assigned value as its value.
C22_AssignUndeclared ==
    /\ Ran("assign_undeclared") =>
          /\ runtime_errors = {"Undefined variable 'x'."}
          /\ exit_code = 70
          /\ Texts = <<>>
          /\ Unbound("x")
          /\ Len(frames) = 1
    /\ Ran("assign_undeclared_fn") =>
          /\ runtime_errors = {"Undefined variable 'x'."}
          /\ exit_code = 70
          /\ Texts = <<>>
          /\ Unbound("x")
    /\ Ran("assign_value") =>
          exit_code = 0 /\ Texts = <<"2.0", "2.0", "3.0">>
    /\ Ran("assign_late") => exit_code = 0 /\ Texts = <<"1.0", "1.0">>

C22_Witness ==
    /\ Ran("assign_undeclared_fn")
    /\ had_runtime_error
    /\ Len(frames) = 2

\* C23: whenever a node with an entry d in the depth table is evaluated,
\* the frame d steps up from the active environment exists and holds a
\* binding of the node's name: get_at never gives nil for a missing name
\* and assign_at never creates a binding.
C23_DepthCorrectness == ~fell_back

====
